---- MODULE Spec2Model ----
(***************************************************************************)
(* Stock reconciliation engine of syncStocksML.js: Manager+ (source) ->    *)
(* Mercado Libre (sink).  One Node.js process serves a sequence of         *)
(* syncProductStock (syncOne) and syncMultipleProducts (syncMany) calls;   *)
(* the module-level listing cache mlProductsCache outlives each call.      *)
(* Remote calls are the suspension points: every reply is one step, and    *)
(* the replies of the items of one chunk arrive in any order.  The command *)
(* line of syncStocksML.js and the webhook endpoint of server.js are       *)
(* modelled beside the engine.                                             *)
(***************************************************************************)
EXTENDS Integers, Sequences, FiniteSets, TLC

\* ------------------------------------------------------------------ bounds
MaxLen == 2            \* longest identifier array passed to syncMany
MaxQty == 1            \* quantities range over 0..MaxQty
MaxRetriesOpt == 1     \* options.maxRetries ranges over 0..MaxRetriesOpt
MaxConcOpt == 2        \* options.concurrency ranges over 1..MaxConcOpt
MaxLenProc == 1        \* longest identifier array in the process-level runs
MaxRetriesProc == 1    \* options.maxRetries in the process-level runs
MaxLenSrv == 2         \* longest identifier array in the runs with default options
MaxLenFair == 1        \* longest identifier array in the runs under fairness
MaxListings == 3       \* most listings in the runs that build the index
MaxBatch == 51         \* longest identifier array in the runs with high concurrency
MaxRecords == 3        \* most entries in the stock breakdown of a product record
MaxLenCli == 1         \* most identifiers on the command line
MaxHooks == 2          \* most POSTs received at the webhook endpoint
MaxConcRetry == 8      \* options.concurrency in the runs with several retry passes
MaxRetriesRetry == 2   \* options.maxRetries in the runs with several retry passes
MaxPageListings == 101 \* most active listings in the builds followed page by page
MaxBuilds == 2         \* most calls of loadAllMercadoLibreProducts in one process
MaxOverlapListings == 3 \* most active listings when two builds overlap
MaxErpCallers == 3     \* most calls of getERPAuthToken in one process
MaxNow == 4            \* last reading of the clock, in half hours
MaxLenExec == 3        \* longest array handed to processInParallel on its own
MaxConcExec == 2       \* largest concurrency handed to it

\* --------------------------------------------------------- program constants
ABSOLUTE_MAX_CONCURRENCY == 50
MAX_RECOMMENDED_CONCURRENCY == 20
DefaultConcurrency == 5
DefaultMaxRetries == 3
MinRetryConcurrency == 2
PageLimit == 50
ERP_TOKEN_TTL == 2     \* 60 * 60 * 1000 ms, in half hours

\* -------------------------------------------------------------- the universe
Skus == {"A", "B", "C"}
\* Identifiers handed to syncMany; "C" is synchronised one at a time.
ManySkus == {"A", "B"}
\* Active listings of the seller in pagination order; "C" has no listing.
Null == ""
\* readable: the request for the record of the listing succeeds.
Listings ==
  << [id |-> "MLA1", seller_custom_field |-> "A", seller_sku |-> Null,
      readable |-> TRUE],
     [id |-> "MLA2", seller_custom_field |-> Null, seller_sku |-> "B",
      readable |-> TRUE] >>
ItemIds == {Listings[n].id : n \in 1..Len(Listings)}
Qty == 0..MaxQty
NA == 0 - 1               \* a field the result object does not carry
Undefined == 0 - 2        \* an option the caller did not pass
NoCache == [loaded |-> FALSE]
NoResult == [sku |-> Null, success |-> FALSE, action |-> "none", error |-> Null,
             managerStock |-> NA, mlStock |-> NA]

\* Classes of error.message texts, by the substrings the code tests for.
MsgNotInManager == "Producto no encontrado en Manager+"
MsgNotInML == "Producto no encontrado en Mercado Libre"
MsgRateLimit == "Rate limit"
MsgServer == "Error del servidor"
MsgRaw == "raw"                       \* any other text
MsgRawNoEncontrado == "raw no encontrado" \* other text holding 'no encontrado'

\* r.error.includes('no encontrado') || r.error.includes('skipped')
IncludesTerminal(msg) == msg \in {MsgNotInManager, MsgNotInML, MsgRawNoEncontrado}

VARIABLES
  mlListings,       \* the active listings at Mercado Libre, in pagination order
  managerProduct,   \* the product record Manager+ holds, where it is modelled
  argv,             \* the command line the process was started with, if any
  webhook,          \* the POSTs received at /api/webhooks/mercadolibre
  builds,           \* the calls of loadAllMercadoLibreProducts followed step by step
  erp,              \* the clock, the Manager+ token cache and the callers of it
  mlProductsCache,  \* module-level cache: NoCache or the Map sku -> summary
  sinkQty,          \* available_quantity of each listing at Mercado Libre
  phase,            \* "idle","auth","load","pass","done","failed"
  kind,             \* "one" (syncProductStock) or "many" (syncMultipleProducts)
  skus,             \* the identifier array of the call
  opts,             \* options after defaults and the concurrency clamp
  results,          \* the results object of syncMultipleProducts
  retryAttempt,     \* 0 in the initial pass, then the retry attempt number
  passList,         \* array handed to processInParallel in this pass
  passConc,         \* concurrency handed to processInParallel in this pass
  idx,              \* loop variable i of processInParallel
  acc,              \* results array of processInParallel
  items,            \* the promises of the current chunk
  lastPass,         \* what the preceding processInParallel call returned
  decision,         \* value returned by syncProductStock called directly
  putCount,         \* history: update calls issued per position of passList
  firstPass,        \* history: what the initial pass returned
  retryUpdated,     \* history: identifiers that gave Updated in a retry pass
  anyDryRun,        \* history: some call of this process was a dry run
  prevOne           \* history: Decision of the directly preceding syncOne

vars == << mlListings, managerProduct, argv, webhook, builds, erp,
           mlProductsCache,
           sinkQty, phase, kind, skus, opts, results, retryAttempt, passList,
           passConc, idx, acc, items, lastPass, decision, putCount, firstPass,
           retryUpdated, anyDryRun, prevOne >>

\* What the calls of the synchronisation leave alone.
env == << mlListings, managerProduct, argv, webhook, builds, erp >>

\* ------------------------------------------------------------ pure helpers
Range(f) == {f[x] : x \in DOMAIN f}

\* resolveSkuFromMLItem: seller_custom_field, else the SELLER_SKU attribute,
\* else null.  seller_sku is the value_name of the attribute that
\* item.attributes.find(...) selects, Null when there is no such attribute or
\* it has no value_name.
resolveCustomFieldOrItemId(item) ==
  IF item.seller_custom_field # Null THEN item.seller_custom_field
  ELSE item.id
resolveSkuOrItemId(item) ==
  IF item.seller_custom_field # Null THEN item.seller_custom_field
  ELSE IF item.seller_sku # Null THEN item.seller_sku
  ELSE item.id
resolveSkuFromMLItem(item) ==
  IF item.seller_custom_field # Null THEN item.seller_custom_field
  ELSE IF item.seller_sku # Null THEN item.seller_sku
  ELSE Null

\* The for-loop of loadAllMercadoLibreProducts over the listing records:
\* a listing whose record cannot be read or that has no SKU is left out, the
\* first listing of a SKU is kept.
RECURSIVE BuildMapKeepLast(_, _, _)
BuildMapKeepLast(list, map, qty) ==
  IF list = << >> THEN map
  ELSE LET item == Head(list)
           sku == resolveSkuFromMLItem(item)
           next == IF ~item.readable \/ sku = Null THEN map
                   ELSE [s \in DOMAIN map \cup {sku} |->
                           IF s = sku
                           THEN [itemId |-> item.id, currentStock |-> qty[item.id]]
                           ELSE map[s]]
       IN BuildMapKeepLast(Tail(list), next, qty)
RECURSIVE BuildMap(_, _, _)
BuildMap(list, map, qty) ==
  IF list = << >> THEN map
  ELSE LET item == Head(list)
           sku == resolveSkuFromMLItem(item)
           next == IF ~item.readable \/ sku = Null \/ sku \in DOMAIN map THEN map
                   ELSE [s \in DOMAIN map \cup {sku} |->
                           IF s = sku
                           THEN [itemId |-> item.id, currentStock |-> qty[item.id]]
                           ELSE map[s]]
       IN BuildMap(Tail(list), next, qty)

EmptyMap == [s \in {} |-> [itemId |-> Null, currentStock |-> 0]]

\* ---------------------------------------------- the product record of Manager+
\* JavaScript values of the stock breakdown: an array or a value that is no
\* array; an entry that is an object or one that is none (null, a number);
\* a saldo that is undefined, a number or a string of characters.
NotArray == [arr |-> FALSE]
Arr(els) == [arr |-> TRUE, els |-> els]
NoObject == [obj |-> FALSE]
Obj(saldo) == [obj |-> TRUE, saldo |-> saldo]
UndefinedValue == [t |-> "undefined"]
Num(n) == [t |-> "number", v |-> n]
Str(chars) == [t |-> "string", v |-> chars]
NaN == [t |-> "NaN"]

DigitChars == << "0", "1", "2", "3", "4", "5", "6", "7", "8", "9" >>
IsDigit(c) == c \in Range(DigitChars)
DigitValue(c) == (CHOOSE k \in 1..Len(DigitChars) : DigitChars[k] = c) - 1
\* The longest prefix of a string that is made of digits.
RECURSIVE LeadingDigits(_)
LeadingDigits(chars) ==
  IF chars = << >> \/ ~IsDigit(Head(chars)) THEN << >>
  ELSE << Head(chars) >> \o LeadingDigits(Tail(chars))
RECURSIVE DecimalValue(_)
DecimalValue(digits) ==
  IF digits = << >> THEN 0
  ELSE 10 * DecimalValue(SubSeq(digits, 1, Len(digits) - 1))
         + DigitValue(digits[Len(digits)])

\* x || 0 for the values above: undefined, 0, NaN and '' are falsy.
OrZero(x) ==
  IF x.t \in {"undefined", "NaN"} THEN Num(0)
  ELSE IF x.t = "string" /\ x.v = << >> THEN Num(0)
  ELSE x
\* parseFloat of a number or of a string of digits and letters: the number
\* itself; the number the string begins with, NaN when it begins with none.
parseFloat(x) ==
  IF x.t = "number" THEN x
  ELSE IF x.t = "string" /\ LeadingDigits(x.v) # << >>
       THEN Num(DecimalValue(LeadingDigits(x.v)))
       ELSE NaN

\* extractStockFromProduct: stock += parseFloat(item.saldo || 0) || 0 over
\* the objects of the sub-arrays of product.stock.
RECURSIVE SumSeq(_)
SumSeq(list) == IF list = << >> THEN 0 ELSE Head(list) + SumSeq(Tail(list))
extractStockFromProduct(product) ==
  LET saldoOf(item) ==
        IF item.obj THEN OrZero(parseFloat(OrZero(item.saldo))).v ELSE 0
      subArrayOf(subArray) ==
        IF subArray.arr
        THEN SumSeq([k \in 1..Len(subArray.els) |-> saldoOf(subArray.els[k])])
        ELSE 0
  IN IF product.stock.arr /\ Len(product.stock.els) > 0
     THEN SumSeq([k \in 1..Len(product.stock.els) |->
                    subArrayOf(product.stock.els[k])])
     ELSE 0

\* The four result shapes of syncProductStock.
ErrorResult(sku, msg) ==
  [sku |-> sku, success |-> FALSE, action |-> "error", error |-> msg,
   managerStock |-> NA, mlStock |-> NA]
SkippedResult(sku, msg) ==
  [sku |-> sku, success |-> FALSE, action |-> "skipped", error |-> msg,
   managerStock |-> NA, mlStock |-> NA]
OkResult(sku, action, managerStock, mlStock) ==
  [sku |-> sku, success |-> TRUE, action |-> action, error |-> Null,
   managerStock |-> managerStock, mlStock |-> mlStock]

\* Steps 2-4 of syncProductStock once Manager+ returned a product: the value
\* is the result object, or the action "put" when the update call is issued.
DecideIgnoringDryRun(sku, managerStock, map, dryRun, forceUpdate) ==
  IF sku \notin DOMAIN map THEN SkippedResult(sku, MsgNotInML)
  ELSE LET mlStock == map[sku].currentStock
       IN IF managerStock = mlStock /\ ~forceUpdate
          THEN OkResult(sku, "no_change", managerStock, mlStock)
          ELSE OkResult(sku, "put", managerStock, mlStock)
DecideForceSkipsDryRun(sku, managerStock, map, dryRun, forceUpdate) ==
  IF sku \notin DOMAIN map THEN SkippedResult(sku, MsgNotInML)
  ELSE LET mlStock == map[sku].currentStock
       IN IF managerStock = mlStock /\ ~forceUpdate
          THEN OkResult(sku, "no_change", managerStock, mlStock)
          ELSE IF dryRun /\ ~forceUpdate
               THEN OkResult(sku, "would_update", managerStock, mlStock)
               ELSE OkResult(sku, "put", managerStock, mlStock)
DecideDryRunFirst(sku, managerStock, map, dryRun, forceUpdate) ==
  IF sku \notin DOMAIN map THEN SkippedResult(sku, MsgNotInML)
  ELSE LET mlStock == map[sku].currentStock
       IN IF dryRun THEN OkResult(sku, "would_update", managerStock, mlStock)
          ELSE IF managerStock = mlStock /\ ~forceUpdate
               THEN OkResult(sku, "no_change", managerStock, mlStock)
               ELSE OkResult(sku, "put", managerStock, mlStock)
DecideAlwaysWrites(sku, managerStock, map, dryRun, forceUpdate) ==
  IF sku \notin DOMAIN map THEN SkippedResult(sku, MsgNotInML)
  ELSE LET mlStock == map[sku].currentStock
       IN IF dryRun THEN OkResult(sku, "would_update", managerStock, mlStock)
          ELSE OkResult(sku, "put", managerStock, mlStock)
Decide(sku, managerStock, map, dryRun, forceUpdate) ==
  IF sku \notin DOMAIN map THEN SkippedResult(sku, MsgNotInML)
  ELSE LET mlStock == map[sku].currentStock
       IN IF managerStock = mlStock /\ ~forceUpdate
          THEN OkResult(sku, "no_change", managerStock, mlStock)
          ELSE IF dryRun
               THEN OkResult(sku, "would_update", managerStock, mlStock)
               ELSE OkResult(sku, "put", managerStock, mlStock)

\* The filter of failedProducts and of remainingFailures.
RetryAlsoTerminal(r) == ~r.success /\ r.action = "error" /\ r.error # Null
IsRetryable(r) ==
  /\ ~r.success
  /\ r.action = "error"
  /\ r.error # Null
  /\ ~IncludesTerminal(r.error)

\* Promise.all: the results of a chunk in the order of the chunk.
ChunkResultsReversed(chunk) ==
  [p \in 1..Len(chunk) |-> chunk[Len(chunk) + 1 - p].res]
ChunkResults(chunk) == [p \in 1..Len(chunk) |-> chunk[p].res]

\* One iteration of results.details.forEach after the initial pass.
TallyOne(r, result) ==
  IF result.success
  THEN IF result.action \in {"updated", "would_update"}
       THEN [r EXCEPT !.updated = @ + 1]
       ELSE IF result.action = "no_change"
            THEN [r EXCEPT !.noChange = @ + 1]
            ELSE [r EXCEPT !.skipped = @ + 1]
  ELSE [r EXCEPT !.errors = @ + 1]
RECURSIVE TallyAll(_, _)
TallyAll(r, list) ==
  IF list = << >> THEN r ELSE TallyAll(TallyOne(r, Head(list)), Tail(list))

\* results.details.findIndex(r => r.sku === sku); 0 stands for -1.
FindIndex(details, sku) ==
  LET hits == {k \in 1..Len(details) : details[k].sku = sku}
  IN IF hits = {} THEN 0 ELSE CHOOSE k \in hits : \A j \in hits : k <= j

\* One iteration of retryProcessedResults.forEach.
SpliceOneNoIncrement(r, retryResult) ==
  LET k == FindIndex(r.details, retryResult.sku)
  IN IF k = 0 THEN r
     ELSE LET orig == r.details[k]
              wasError == ~orig.success /\ orig.action = "error"
              r1 == [r EXCEPT !.details[k] = retryResult]
          IN IF retryResult.success /\ wasError
             THEN [r1 EXCEPT !.errors = @ - 1]
             ELSE r1
SpliceOneKeepsError(r, retryResult) ==
  LET k == FindIndex(r.details, retryResult.sku)
  IN IF k = 0 THEN r ELSE [r EXCEPT !.details[k] = retryResult]
SpliceOne(r, retryResult) ==
  LET k == FindIndex(r.details, retryResult.sku)
  IN IF k = 0 THEN r
     ELSE LET orig == r.details[k]
              wasError == ~orig.success /\ orig.action = "error"
              r1 == [r EXCEPT !.details[k] = retryResult]
          IN IF retryResult.success /\ wasError
             THEN LET r2 == [r1 EXCEPT !.errors = @ - 1]
                  IN IF retryResult.action \in {"updated", "would_update"}
                     THEN [r2 EXCEPT !.updated = @ + 1]
                     ELSE IF retryResult.action = "no_change"
                          THEN [r2 EXCEPT !.noChange = @ + 1]
                          ELSE IF retryResult.action = "skipped"
                               THEN [r2 EXCEPT !.skipped = @ + 1]
                               ELSE r2
             ELSE r1
RECURSIVE SpliceAll(_, _)
SpliceAll(r, list) ==
  IF list = << >> THEN r ELSE SpliceAll(SpliceOne(r, Head(list)), Tail(list))

SkusOf(list) == [k \in 1..Len(list) |-> list[k].sku]

Max(a, b) == IF a > b THEN a ELSE b
Min(a, b) == IF a < b THEN a ELSE b

\* options.concurrency || 5
ConcurrencyOrDefault(c) ==
  IF c = Undefined \/ c = 0 THEN DefaultConcurrency ELSE c

\* The ceiling put on let concurrency: above ABSOLUTE_MAX_CONCURRENCY the
\* value is replaced, below it is kept (with or without a warning).
ClampNothing(c) == c
ClampConcurrency(c) ==
  IF c > ABSOLUTE_MAX_CONCURRENCY THEN ABSOLUTE_MAX_CONCURRENCY ELSE c

\* options.maxRetries !== undefined ? options.maxRetries : 3
MaxRetriesAlwaysDefault(m) == DefaultMaxRetries
MaxRetriesOrDefault(m) == IF m = Undefined THEN DefaultMaxRetries ELSE m

\* Math.max(2, Math.floor(concurrency / 2))
RetryConcurrencyHalvedAgain(c) ==
  Max(MinRetryConcurrency, (IF retryAttempt = 0 THEN c ELSE passConc) \div 2)
RetryConcurrencyNoMin(c) == c \div 2
RetryConcurrency(c) == Max(MinRetryConcurrency, c \div 2)

\* array.slice(i, i + concurrency), i counted from 0.
SliceToEnd(array, i, c) == SubSeq(array, i + 1, Len(array))
Slice(array, i, c) == SubSeq(array, i + 1, Min(i + c, Len(array)))

EmptyResults(total) ==
  [total |-> total, updated |-> 0, skipped |-> 0, errors |-> 0,
   noChange |-> 0, details |-> << >>]

\* src and snk are history: the answer this call got from Manager+ and from
\* Mercado Libre, "none" while there is none.
NewItem(sku) == [sku |-> sku, pc |-> "fetch", managerStock |-> NA,
                 mlStock |-> NA, res |-> NoResult, src |-> "none",
                 snk |-> "none"]

\* ------------------------------------------------------------------- state
\* optConcurrency and optMaxRetries are options.concurrency and
\* options.maxRetries as the caller passed them; concurrency and maxRetries
\* are the locals the code computes from them.
DefaultOpts == [dryRun |-> FALSE, forceUpdate |-> FALSE, concurrency |-> 1,
                maxRetries |-> 0, optConcurrency |-> Undefined,
                optMaxRetries |-> Undefined]

SeqsUpTo(S, n) == UNION {[1..k -> S] : k \in 0..n}

\* if (mlProductsCache): null is falsy, a Map is truthy also when empty.
HasNonEmptyCache(c) == c.loaded /\ DOMAIN c.map # {}
HasCacheNever(c) == FALSE
HasCache(c) == c.loaded

\* loadAllMercadoLibreProducts from the listing requests to
\* mlProductsCache = productMap, with the quantities the sink holds.
BuiltCache(qty) == [loaded |-> TRUE, map |-> BuildMap(mlListings, EmptyMap, qty)]

\* A process started by server.js that has received no webhook; the product
\* records of Manager+ are abstracted to the quantities q of SourceReply.
NoProduct == [stock |-> NotArray]
NoArgv == [set |-> FALSE]
\* No token of Manager+ is cached and nobody has asked for one; 0 stands for
\* null in erpAuthToken and erpTokenExpirationTime.
NoErp == [now |-> 0, token |-> 0, expiry |-> 0, issuedAt |-> << >>,
          callers |-> << >>]
NoCaller ==
  /\ managerProduct = NoProduct
  /\ argv = NoArgv
  /\ webhook = << >>
  /\ builds = << >>
  /\ erp = NoErp

\* What every call starts from, whatever the cache and the sink hold.
Idle ==
  /\ phase = "idle"
  /\ kind = "none"
  /\ skus = << >>
  /\ opts = DefaultOpts
  /\ results = EmptyResults(0)
  /\ retryAttempt = 0
  /\ passList = << >>
  /\ passConc = 1
  /\ idx = 0
  /\ acc = << >>
  /\ items = << >>
  /\ lastPass = << >>
  /\ decision = NoResult
  /\ putCount = << >>
  /\ firstPass = << >>
  /\ retryUpdated = {}

\* A process between two calls: the cache is unset, or an earlier call built
\* it and wrote nothing (a dry run).  Once the cache is set the code never
\* reads the sink quantity again, so a stale cache at the start of a call
\* adds no behaviour; the cache does go stale inside a call, at each update.
\* The listings start with one quantity each, the least and the greatest:
\* the quantities Manager+ reports range over Qty, so that an identifier
\* meets its listing with an equal and with a different quantity.
Init ==
  /\ mlListings = Listings
  /\ NoCaller
  /\ sinkQty = [i \in ItemIds |-> IF i = Listings[1].id THEN 0 ELSE MaxQty]
  /\ mlProductsCache \in {NoCache, BuiltCache(sinkQty)}
  /\ Idle
  /\ anyDryRun = FALSE
  /\ prevOne = NoResult

\* A process that has just been started: let mlProductsCache = null.
InitProc ==
  /\ mlListings = Listings
  /\ NoCaller
  /\ mlProductsCache = NoCache
  /\ sinkQty \in [ItemIds -> Qty]
  /\ Idle
  /\ anyDryRun = FALSE
  /\ prevOne = NoResult

\* An item of the current chunk settles with result res: its promise holds
\* the result object and the locals of syncProductStock are gone.
SettleWholeChunk(p, res, src, snk) ==
  /\ items' = [j \in 1..Len(items) |->
                 [items[j] EXCEPT !.pc = "done",
                                  !.res = [res EXCEPT !.sku = items[j].sku],
                                  !.managerStock = NA, !.mlStock = NA,
                                  !.src = src, !.snk = snk]]
  /\ retryUpdated' = retryUpdated
Settle(p, res, src, snk) ==
  /\ items' = [items EXCEPT ![p].pc = "done", ![p].res = res,
                            ![p].managerStock = NA, ![p].mlStock = NA,
                            ![p].src = src, ![p].snk = snk]
  /\ retryUpdated' = IF retryAttempt >= 1 /\ res.action = "updated"
                     THEN retryUpdated \cup {res.sku} ELSE retryUpdated

\* The item goes on from the comparison of step 3: it settles, or it issues
\* updateMercadoLibreStock(mlProduct.itemId, managerStock).
Proceed(p, d) ==
  IF d.action = "put"
  THEN /\ items' = [items EXCEPT ![p].pc = "put",
                                 ![p].managerStock = d.managerStock,
                                 ![p].mlStock = d.mlStock,
                                 ![p].src = "200"]
       /\ putCount' = [putCount EXCEPT ![idx + p] = @ + 1]
       /\ UNCHANGED retryUpdated
  ELSE /\ Settle(p, d, "200", "none")
       /\ UNCHANGED putCount

\* ----------------------------------------------------------------- actions
\* syncProductStock(sku, {dryRun, forceUpdate}) called directly: the request
\* to Manager+ is in flight.
CallSyncOne(sku, dryRun, forceUpdate) ==
  /\ phase = "idle"
  /\ phase' = "pass"
  /\ kind' = "one"
  /\ skus' = << sku >>
  /\ opts' = [DefaultOpts EXCEPT !.dryRun = dryRun, !.forceUpdate = forceUpdate]
  /\ passList' = << sku >>
  /\ putCount' = << 0 >>
  /\ items' = << NewItem(sku) >>
  /\ anyDryRun' = (anyDryRun \/ dryRun)
  /\ UNCHANGED env
  /\ UNCHANGED << mlProductsCache, sinkQty, results, retryAttempt, passConc,
                  idx, acc, lastPass, decision, firstPass, retryUpdated, prevOne >>

\* syncMultipleProducts(skus, options) up to await verifyMercadoLibreAuth().
CallSyncMany(list, dryRun, forceUpdate, concurrency, maxRetries) ==
  /\ phase = "idle"
  /\ phase' = "auth"
  /\ kind' = "many"
  /\ skus' = list
  /\ opts' = [dryRun |-> dryRun, forceUpdate |-> forceUpdate,
              concurrency |-> ClampConcurrency(ConcurrencyOrDefault(concurrency)),
              maxRetries |-> MaxRetriesOrDefault(maxRetries),
              optConcurrency |-> concurrency,
              optMaxRetries |-> maxRetries]
  /\ results' = EmptyResults(Len(list))
  /\ anyDryRun' = (anyDryRun \/ dryRun)
  /\ prevOne' = NoResult
  /\ UNCHANGED env
  /\ UNCHANGED << mlProductsCache, sinkQty, retryAttempt, passList, passConc,
                  idx, acc, items, lastPass, decision, putCount, firstPass,
                  retryUpdated >>

\* const chunk = array.slice(i, i + concurrency); chunk.map(processor):
\* every item of the chunk sends its request to Manager+.
ChunkAt(array, i, concurrency) ==
  LET chunk == Slice(array, i, concurrency)
  IN [p \in 1..Len(chunk) |-> NewItem(chunk[p])]

\* A call of processInParallel(array, processor, concurrency) begins and
\* starts its first chunk.
BeginPass(array, concurrency) ==
  /\ passList' = array
  /\ passConc' = concurrency
  /\ idx' = 0
  /\ acc' = << >>
  /\ items' = ChunkAt(array, 0, concurrency)
  /\ putCount' = [k \in 1..Len(array) |-> 0]

\* verifyMercadoLibreAuth() resolves, or rejects and the call throws.
VerifyReply(ok) ==
  /\ phase = "auth"
  /\ phase' = IF ok THEN "load" ELSE "failed"
  /\ UNCHANGED env
  /\ UNCHANGED << mlProductsCache, sinkQty, kind, skus, opts, results,
                  retryAttempt, passList, passConc, idx, acc, items, lastPass,
                  decision, putCount, firstPass, retryUpdated,
                  anyDryRun, prevOne >>

\* loadAllMercadoLibreProducts() inside syncMultipleProducts: the cached Map
\* when there is one, else the listings are read and the Map is stored; a
\* failing request makes the call throw.  Then the initial pass begins.
LoadReply(ok) ==
  /\ phase = "load"
  /\ ok \/ ~HasCache(mlProductsCache)
  /\ IF ok
     THEN /\ mlProductsCache' =
               IF HasCache(mlProductsCache) THEN mlProductsCache
               ELSE BuiltCache(sinkQty)
          /\ phase' = "pass"
          /\ retryAttempt' = 0
          /\ BeginPass(skus, opts.concurrency)
     ELSE /\ phase' = "failed"
          /\ UNCHANGED << mlProductsCache, retryAttempt, passList, passConc,
                          idx, acc, items, putCount >>
  /\ UNCHANGED env
  /\ UNCHANGED << sinkQty, kind, skus, opts, results, lastPass, decision,
                  firstPass, retryUpdated, anyDryRun, prevOne >>

\* The replies the two services give.  A 5xx reply differs from a 429 reply
\* in the text of the error alone (ErrorMessage) and both texts pass the
\* retry filter, so 429 stands for the failures that are retried.
SourceOutcomes == {"200", "404", "429", "other_ne"}
SinkOutcomes == {"200", "429"}

\* Every kind of reply: the statuses the code tests for, two of the 5xx
\* statuses, and a failure of another kind ("other", "other_ne" when its
\* message holds 'no encontrado').
ServerErrors == {"500", "503"}
AllSourceOutcomes == {"200", "404", "429", "other", "other_ne"} \cup ServerErrors
AllSinkOutcomes == {"200", "429", "other"} \cup ServerErrors

\* The text of the error thrown for a failed request.
ErrorMessageNoServer(outcome) ==
  CASE outcome = "429" -> MsgRateLimit
    [] outcome = "other_ne" -> MsgRawNoEncontrado
    [] OTHER -> MsgRaw
ErrorMessage(outcome) ==
  CASE outcome = "429" -> MsgRateLimit
    [] outcome \in ServerErrors -> MsgServer
    [] outcome = "other_ne" -> MsgRawNoEncontrado
    [] OTHER -> MsgRaw

\* Manager+ answers the request of item p: getManagerProductBySKU returns or
\* throws, and syncProductStock runs on to its next remote call.
SourceReply(p, outcome, q) ==
  /\ phase = "pass"
  /\ p \in 1..Len(items)
  /\ items[p].pc = "fetch"
  /\ LET sku == items[p].sku
     IN CASE outcome = "200" ->
               IF ~HasCache(mlProductsCache)
               THEN /\ items' = [items EXCEPT ![p].pc = "load",
                                              ![p].managerStock = q,
                                              ![p].src = "200"]
                    /\ UNCHANGED << putCount, retryUpdated >>
               ELSE Proceed(p, Decide(sku, q, mlProductsCache.map,
                                      opts.dryRun, opts.forceUpdate))
          [] outcome = "404" ->
               /\ Settle(p, SkippedResult(sku, MsgNotInManager), outcome, "none")
               /\ UNCHANGED putCount
          [] OTHER ->
               /\ Settle(p, ErrorResult(sku, ErrorMessage(outcome)), outcome, "none")
               /\ UNCHANGED putCount
  /\ UNCHANGED env
  /\ UNCHANGED << mlProductsCache, sinkQty, phase, kind, skus, opts, results,
                  retryAttempt, passList, passConc, idx, acc, lastPass,
                  decision, firstPass, anyDryRun, prevOne >>

\* syncProductStock without a Map: getMercadoLibreProductStockBySKU awaits
\* loadAllMercadoLibreProducts(); a failure lands in the outer catch.
OneLoadReply(ok) ==
  /\ phase = "pass"
  /\ Len(items) = 1
  /\ items[1].pc = "load"
  /\ IF ok
     THEN /\ mlProductsCache' = BuiltCache(sinkQty)
          /\ Proceed(1, Decide(items[1].sku, items[1].managerStock,
                               BuiltCache(sinkQty).map,
                               opts.dryRun, opts.forceUpdate))
     ELSE /\ Settle(1, ErrorResult(items[1].sku, MsgRaw), "200", "none")
          /\ UNCHANGED << mlProductsCache, putCount >>
  /\ UNCHANGED env
  /\ UNCHANGED << sinkQty, phase, kind, skus, opts, results, retryAttempt,
                  passList, passConc, idx, acc, lastPass, decision, firstPass,
                  anyDryRun, prevOne >>

\* Mercado Libre answers the PUT of item p: the quantity is overwritten and
\* the item is Updated, or updateMercadoLibreStock throws.
SinkReply(p, outcome) ==
  /\ phase = "pass"
  /\ p \in 1..Len(items)
  /\ items[p].pc = "put"
  /\ LET it == items[p]
         itemId == mlProductsCache.map[it.sku].itemId
     IN IF outcome = "200"
        THEN /\ sinkQty' = [sinkQty EXCEPT ![itemId] = it.managerStock]
             /\ Settle(p, OkResult(it.sku, "updated", it.managerStock, it.mlStock),
                       it.src, outcome)
        ELSE /\ Settle(p, ErrorResult(it.sku, ErrorMessage(outcome)),
                       it.src, outcome)
             /\ UNCHANGED sinkQty
  /\ UNCHANGED env
  /\ UNCHANGED << mlProductsCache, phase, kind, skus, opts, results,
                  retryAttempt, passList, passConc, idx, acc, lastPass,
                  decision, putCount, firstPass, anyDryRun, prevOne >>

\* Promise.all(chunk.map(processor)) resolves: results.push(...chunkResults),
\* the for-loop advances and starts the next chunk when there is one.
ChunkResolve ==
  /\ phase = "pass"
  /\ kind \in {"many", "exec"}
  /\ items # << >>
  /\ \A p \in 1..Len(items) : items[p].pc = "done"
  /\ acc' = acc \o ChunkResults(items)
  /\ idx' = idx + passConc
  /\ items' = IF idx + passConc < Len(passList)
              THEN ChunkAt(passList, idx + passConc, passConc)
              ELSE << >>
  /\ UNCHANGED env
  /\ UNCHANGED << mlProductsCache, sinkQty, phase, kind, skus, opts, results,
                  retryAttempt, passList, passConc, lastPass, decision,
                  putCount, firstPass, retryUpdated, anyDryRun,
                  prevOne >>

\* Whether another retry pass follows the pass numbered attempt:
\* failedProducts.length > 0 && !options.dryRun in front of the loop, and
\* remainingFailures.length > 0 && retryAttempt <= maxRetries in its head.
ShouldRetryInDryRun(failures, dryRun, attempt, maxRetries) ==
  /\ Len(failures) > 0
  /\ attempt + 1 <= maxRetries
ShouldRetry(failures, dryRun, attempt, maxRetries) ==
  /\ Len(failures) > 0
  /\ ~dryRun
  /\ attempt + 1 <= maxRetries

\* processInParallel returned in syncMultipleProducts.  After the initial
\* pass: results.details, the counters and failedProducts; after a retry
\* pass: the splice into results.details and remainingFailures.  Then the
\* test of the retry loop: another pass, or the summary and return results.
PassComplete ==
  /\ phase = "pass"
  /\ kind = "many"
  /\ items = << >>
  /\ idx >= Len(passList)
  /\ LET r1 == IF retryAttempt = 0
               THEN TallyAll([results EXCEPT !.details = acc], acc)
               ELSE SpliceAll(results, acc)
         remainingFailures ==
               IF retryAttempt = 0
               THEN SelectSeq(r1.details, IsRetryable)
               ELSE SelectSeq(acc, IsRetryable)
         again == ShouldRetry(remainingFailures, opts.dryRun, retryAttempt,
                              opts.maxRetries)
     IN /\ results' = r1
        /\ lastPass' = acc
        /\ firstPass' = IF retryAttempt = 0 THEN acc ELSE firstPass
        /\ IF again
           THEN /\ retryAttempt' = retryAttempt + 1
                /\ BeginPass(SkusOf(remainingFailures),
                             RetryConcurrency(opts.concurrency))
                /\ phase' = "pass"
           ELSE /\ phase' = "done"
                /\ UNCHANGED << retryAttempt, passList, passConc, idx, acc,
                                items, putCount >>
  /\ UNCHANGED env
  /\ UNCHANGED << mlProductsCache, sinkQty, kind, skus, opts, decision,
                  retryUpdated, anyDryRun, prevOne >>

\* syncProductStock called directly returns its result object.
OneReturn ==
  /\ phase = "pass"
  /\ kind = "one"
  /\ items[1].pc = "done"
  /\ phase' = "done"
  /\ decision' = items[1].res
  /\ UNCHANGED env
  /\ UNCHANGED << mlProductsCache, sinkQty, kind, skus, opts, results,
                  retryAttempt, passList, passConc, idx, acc, items, lastPass,
                  putCount, firstPass, retryUpdated, anyDryRun,
                  prevOne >>

\* The caller has the result (or the exception); the process is free for the
\* next call.  Only the module-level cache and the sink survive.
Return ==
  /\ phase \in {"done", "failed"}
  /\ phase' = "idle"
  /\ kind' = "none"
  /\ skus' = << >>
  /\ opts' = DefaultOpts
  /\ results' = EmptyResults(0)
  /\ retryAttempt' = 0
  /\ passList' = << >>
  /\ passConc' = 1
  /\ idx' = 0
  /\ acc' = << >>
  /\ items' = << >>
  /\ lastPass' = << >>
  /\ decision' = NoResult
  /\ putCount' = << >>
  /\ firstPass' = << >>
  /\ retryUpdated' = {}
  /\ prevOne' = IF kind = "one" /\ phase = "done" THEN decision ELSE NoResult
  /\ UNCHANGED env
  /\ UNCHANGED << mlProductsCache, sinkQty, anyDryRun >>

\* The replies and continuations of a call in progress.
Step ==
  \/ \E ok \in BOOLEAN : VerifyReply(ok)
  \/ \E ok \in BOOLEAN : LoadReply(ok)
  \/ \E p \in 1..MaxLen + 1, outcome \in SourceOutcomes, q \in Qty :
       SourceReply(p, outcome, q)
  \/ \E ok \in BOOLEAN : OneLoadReply(ok)
  \/ \E p \in 1..MaxLen + 1, outcome \in SinkOutcomes : SinkReply(p, outcome)
  \/ ChunkResolve
  \/ PassComplete
  \/ OneReturn

\* One call, from any state the process can be in between two calls.
Next ==
  \/ \E sku \in Skus, dryRun \in BOOLEAN, forceUpdate \in BOOLEAN :
       CallSyncOne(sku, dryRun, forceUpdate)
  \/ \E list \in SeqsUpTo(ManySkus, MaxLen), dryRun \in BOOLEAN,
        forceUpdate \in BOOLEAN, concurrency \in 1..MaxConcOpt,
        maxRetries \in 0..MaxRetriesOpt :
       CallSyncMany(list, dryRun, forceUpdate, concurrency, maxRetries)
  \/ Step

Spec == Init /\ [][Next]_vars

\* A process serving one call after the other from its start.
NextProc ==
  \/ \E sku \in Skus, dryRun \in BOOLEAN, forceUpdate \in BOOLEAN :
       CallSyncOne(sku, dryRun, forceUpdate)
  \/ \E list \in SeqsUpTo(Skus, MaxLenProc), dryRun \in BOOLEAN,
        forceUpdate \in BOOLEAN, maxRetries \in 0..MaxRetriesProc :
       CallSyncMany(list, dryRun, forceUpdate, 1, maxRetries)
  \/ Step
  \/ Return

SpecProc == InitProc /\ [][NextProc]_vars

\* The calls made with the options left out, as server.js and the command
\* line make them: concurrency and maxRetries take their defaults, or
\* maxRetries is 0 (--no-retry) or concurrency is 1 (--concurrency=1).
NextSrvUpTo(n) ==
  \/ \E sku \in Skus, dryRun \in BOOLEAN : CallSyncOne(sku, dryRun, FALSE)
  \/ \E list \in SeqsUpTo(ManySkus, n), dryRun \in BOOLEAN,
        concurrency \in {Undefined, 1}, maxRetries \in {Undefined, 0} :
       CallSyncMany(list, dryRun, FALSE, concurrency, maxRetries)
  \/ Step
NextSrv == NextSrvUpTo(MaxLenSrv)

SpecSrv == Init /\ [][NextSrv]_vars

\* The same calls when every remote call eventually returns or fails and
\* the continuation of a settled promise is eventually run.
NextFair == NextSrvUpTo(MaxLenFair)

SpecSrvFair == Init /\ [][NextFair]_vars /\ WF_vars(Step)

\* syncProductStock called directly, with every kind of reply.
NextOne ==
  \/ \E sku \in Skus, dryRun \in BOOLEAN, forceUpdate \in BOOLEAN :
       CallSyncOne(sku, dryRun, forceUpdate)
  \/ \E outcome \in AllSourceOutcomes, q \in Qty : SourceReply(1, outcome, q)
  \/ \E ok \in BOOLEAN : OneLoadReply(ok)
  \/ \E outcome \in AllSinkOutcomes : SinkReply(1, outcome)
  \/ OneReturn

SpecOne == Init /\ [][NextOne]_vars

\* Builds of the index over any listings the seller may have: several
\* listings of one SKU, listings without SKU, records that cannot be read.
\* The call is a dry run of at most one identifier.
ListingIds == << "MLA1", "MLA2", "MLA3", "MLA4", "MLA5" >>
ListingFields ==
  [seller_custom_field : {Null, "A", "B"}, seller_sku : {Null, "A"},
   readable : BOOLEAN]
ListingsUpTo(n) ==
  UNION {{[j \in 1..k |->
            [id |-> ListingIds[j],
             seller_custom_field |-> f[j].seller_custom_field,
             seller_sku |-> f[j].seller_sku,
             readable |-> f[j].readable]] : f \in [1..k -> ListingFields]}
         : k \in 0..n}
InitBuild ==
  /\ mlListings \in ListingsUpTo(MaxListings)
  /\ NoCaller
  /\ sinkQty = [i \in Range(ListingIds) |->
                  IF i = ListingIds[1] THEN 0 ELSE MaxQty]
  /\ mlProductsCache = NoCache
  /\ Idle
  /\ anyDryRun = FALSE
  /\ prevOne = NoResult
NextBuild ==
  \/ \E list \in SeqsUpTo({"A"}, 1) :
       CallSyncMany(list, TRUE, FALSE, Undefined, Undefined)
  \/ \E ok \in BOOLEAN : VerifyReply(ok)
  \/ \E ok \in BOOLEAN : LoadReply(ok)
  \/ \E outcome \in SourceOutcomes, q \in Qty : SourceReply(1, outcome, q)
  \/ ChunkResolve
  \/ PassComplete

SpecBuild == InitBuild /\ [][NextBuild]_vars

\* The same builds and calls in a process that serves one call after the
\* other.
NextMemo ==
  \/ NextBuild
  \/ Return

SpecMemo == InitBuild /\ [][NextMemo]_vars

\* syncProductStock called for an identifier whose product record Manager+
\* holds with any stock breakdown: the entries of the breakdown in a row,
\* cut into sub-arrays, followed or not by an empty sub-array or by an entry
\* that is no array; or a record without a stock array.  The balances are
\* whole numbers, so that parseInt(managerProduct.stock) is the number itself.
Saldos == {UndefinedValue, Num(2), Num(3), Num(5), Num(0 - 2),
           Str(<< "1", "x" >>), Str(<< "x" >>)}
StockEntries == {Obj(s) : s \in Saldos} \cup {NoObject}
Kth(S, k) == CHOOSE x \in S : Cardinality({y \in S : y < x}) = k - 1
CutRows(flat, cuts) ==
  LET starts == IF flat = << >> THEN {} ELSE {1} \cup {c + 1 : c \in cuts}
      n == Cardinality(starts)
  IN [k \in 1..n |->
        Arr(SubSeq(flat, Kth(starts, k),
                   IF k < n THEN Kth(starts, k + 1) - 1 ELSE Len(flat)))]
ProductsUpTo(n) ==
  {[stock |-> NotArray]} \cup
  UNION {{[stock |-> Arr(CutRows(flat, cuts) \o tail)] :
            flat \in [1..k -> StockEntries],
            cuts \in SUBSET (1..(k - 1)),
            tail \in {<< >>, << Arr(<< >>) >>, << NotArray >>}} : k \in 0..n}
InitStock ==
  /\ mlListings = Listings
  /\ managerProduct \in ProductsUpTo(MaxRecords)
  /\ argv = NoArgv
  /\ webhook = << >>
  /\ builds = << >>
  /\ erp = NoErp
  /\ sinkQty = [i \in ItemIds |-> IF i = Listings[1].id THEN 0 ELSE MaxQty]
  /\ mlProductsCache = BuiltCache(sinkQty)
  /\ Idle
  /\ anyDryRun = FALSE
  /\ prevOne = NoResult
\* Manager+ answers with the product record it holds.
ProductReply ==
  SourceReply(1, "200", extractStockFromProduct(managerProduct))
NextStock ==
  \/ \E dryRun \in BOOLEAN : CallSyncOne("A", dryRun, FALSE)
  \/ ProductReply
  \/ SinkReply(1, "200")
  \/ OneReturn

SpecStock == InitStock /\ [][NextStock]_vars

\* node syncStocksML.js [--dry-run] [--force] [--no-retry] [SKU ...]: the
\* process is started with a command line and runs main() once.  argv holds
\* what args.includes(...) and args.filter(...) give.
CliArgs ==
  [set : {TRUE}, dryRun : BOOLEAN, force : BOOLEAN, noRetry : BOOLEAN,
   skus : SeqsUpTo(ManySkus, MaxLenCli)]
ArgCount(a) ==
  Len(a.skus) + (IF a.dryRun THEN 1 ELSE 0) + (IF a.force THEN 1 ELSE 0)
    + (IF a.noRetry THEN 1 ELSE 0)
\* const options = {dryRun, force, all}; options.maxRetries = 0 on --no-retry.
CliOptions(a) ==
  IF a.noRetry
  THEN [dryRun |-> a.dryRun, force |-> a.force, all |-> FALSE, maxRetries |-> 0]
  ELSE [dryRun |-> a.dryRun, force |-> a.force, all |-> FALSE]
\* The value of a property of options, or what the code takes when the
\* object has no such property.
OptionOr(options, name, default) ==
  IF name \in DOMAIN options THEN options[name] ELSE default
\* args.length === 0 || (args.length === 1 && args[0].startsWith('--'))
ShowsHelp(a) == ArgCount(a) = 0 \/ (ArgCount(a) = 1 /\ a.skus = << >>)
InitCli ==
  /\ mlListings = Listings
  /\ managerProduct = NoProduct
  /\ argv \in CliArgs
  /\ webhook = << >>
  /\ builds = << >>
  /\ erp = NoErp
  /\ sinkQty = [i \in ItemIds |-> IF i = Listings[1].id THEN 0 ELSE MaxQty]
  /\ mlProductsCache = NoCache
  /\ Idle
  /\ anyDryRun = FALSE
  /\ prevOne = NoResult
\* The help text and process.exit(0), process.exit(1) when no SKU is given,
\* else syncMultipleProducts(skus, options).
CliMain ==
  /\ argv.set
  /\ phase = "idle"
  /\ IF ShowsHelp(argv) \/ argv.skus = << >>
     THEN /\ phase' = IF ShowsHelp(argv) THEN "exit0" ELSE "exit1"
          /\ UNCHANGED env
          /\ UNCHANGED << mlProductsCache, sinkQty, kind, skus, opts, results,
                          retryAttempt, passList, passConc, idx, acc, items,
                          lastPass, decision, putCount, firstPass,
                          retryUpdated, anyDryRun, prevOne >>
     ELSE LET options == CliOptions(argv)
          IN CallSyncMany(argv.skus,
                          OptionOr(options, "dryRun", FALSE),
                          OptionOr(options, "forceUpdate", FALSE),
                          OptionOr(options, "concurrency", Undefined),
                          OptionOr(options, "maxRetries", Undefined))
NextCli ==
  \/ CliMain
  \/ \E ok \in BOOLEAN : VerifyReply(ok)
  \/ \E ok \in BOOLEAN : LoadReply(ok)
  \/ \E p \in 1..MaxLenCli, outcome \in SourceOutcomes, q \in Qty :
       SourceReply(p, outcome, q)
  \/ \E p \in 1..MaxLenCli, outcome \in SinkOutcomes : SinkReply(p, outcome)
  \/ ChunkResolve
  \/ PassComplete

SpecCli == InitCli /\ [][NextCli]_vars

\* ------------------------------------- POST /api/webhooks/mercadolibre
\* req.body after express.json(): an object whose topic and type are set or
\* not.  The handler runs to its end without awaiting: it answers and hands
\* the processing to setImmediate.
HookBodies == [topic : {Null, "orders_v2", "items"}, type : {Null, "orders"}]
\* notificationData.topic || notificationData.type
TopicOf(body) == IF body.topic # Null THEN body.topic ELSE body.type
\* res.status(200).json({success: true, message: 'Notificación recibida'})
HookAnswer == [status |-> 200, success |-> TRUE]
\* What the synchronisation holds; the webhook reads and writes none of it.
syncState ==
  << mlListings, managerProduct, argv, builds, erp, mlProductsCache, sinkQty,
     phase, kind,
     skus, opts, results, retryAttempt, passList, passConc, idx, acc, items,
     lastPass, decision, putCount, firstPass, retryUpdated, anyDryRun,
     prevOne >>
\* The handler of a POST: the answer is written, the callback is scheduled.
HookPost(body) ==
  /\ Len(webhook) < MaxHooks
  /\ webhook' = Append(webhook, [body |-> body, pc |-> "scheduled",
                                 responses |-> << HookAnswer >>])
  /\ UNCHANGED syncState
\* The setImmediate callback of request n starts: an order notification
\* awaits processOrderNotification, any other topic is logged only.
HookImmediate(n) ==
  /\ n \in 1..Len(webhook)
  /\ webhook[n].pc = "scheduled"
  /\ webhook' = [webhook EXCEPT ![n].pc =
                   IF TopicOf(webhook[n].body) \in {"orders_v2", "orders"}
                   THEN "processing" ELSE "unhandled"]
  /\ UNCHANGED syncState
\* catch (error) of the callback: console.error and nothing else.
OnProcessingFailureAnswers(h) ==
  [h EXCEPT !.pc = "failed",
            !.responses = @ \o << [status |-> 500, success |-> FALSE] >>]
OnProcessingFailure(h) == [h EXCEPT !.pc = "failed"]
\* processOrderNotification of request n resolves or rejects.
HookProcessed(n, ok) ==
  /\ n \in 1..Len(webhook)
  /\ webhook[n].pc = "processing"
  /\ webhook' = [webhook EXCEPT ![n] =
                   IF ok THEN [@ EXCEPT !.pc = "processed"]
                   ELSE OnProcessingFailure(@)]
  /\ UNCHANGED syncState
NextHook ==
  \/ \E body \in HookBodies : HookPost(body)
  \/ \E n \in 1..MaxHooks : HookImmediate(n)
  \/ \E n \in 1..MaxHooks, ok \in BOOLEAN : HookProcessed(n, ok)

SpecHook == Init /\ [][NextHook]_vars

\* Large batches under a high requested concurrency.  The items of a batch
\* are alike: Manager+ is throttling and answers every request with 429, and
\* the answers come in the order of the chunk (Spec takes the answers of a
\* chunk in every order; the order does not change how many are in flight).
HighConcurrencies ==
  {MAX_RECOMMENDED_CONCURRENCY, MAX_RECOMMENDED_CONCURRENCY + 1,
   ABSOLUTE_MAX_CONCURRENCY, ABSOLUTE_MAX_CONCURRENCY + 1, 200}
Batch(n) == [k \in 1..n |-> "A"]
ThrottledReply ==
  \E p \in 1..Len(items) :
    /\ \A j \in 1..(p - 1) : items[j].pc = "done"
    /\ SourceReply(p, "429", 0)
NextBatch ==
  \/ \E n \in 1..MaxBatch, concurrency \in HighConcurrencies,
        maxRetries \in {0, 1} :
       CallSyncMany(Batch(n), FALSE, FALSE, concurrency, maxRetries)
  \/ \E ok \in BOOLEAN : VerifyReply(ok)
  \/ \E ok \in BOOLEAN : LoadReply(ok)
  \/ ThrottledReply
  \/ ChunkResolve
  \/ PassComplete

SpecBatch == Init /\ [][NextBatch]_vars

\* Runs of one identifier under every requested concurrency, low and high,
\* set or left out, with up to several retry passes.
RetryConcurrencies ==
  (0..MaxConcRetry) \cup HighConcurrencies \cup {Undefined}
NextRetry ==
  \/ \E concurrency \in RetryConcurrencies,
        maxRetries \in (0..MaxRetriesRetry) \cup {Undefined} :
       CallSyncMany(<< "A" >>, FALSE, FALSE, concurrency, maxRetries)
  \/ \E ok \in BOOLEAN : VerifyReply(ok)
  \/ \E ok \in BOOLEAN : LoadReply(ok)
  \/ \E outcome \in SourceOutcomes, q \in Qty : SourceReply(1, outcome, q)
  \/ \E outcome \in SinkOutcomes : SinkReply(1, outcome)
  \/ ChunkResolve
  \/ PassComplete

SpecRetry == Init /\ [][NextRetry]_vars

\* ------------------------------- loadAllMercadoLibreProducts step by step
\* The active listings of a seller with n listings: the handle of listing k
\* is k, its SKU fields go round (custom field "A", custom field "B", the
\* seller-SKU attribute "A", no SKU), the listings in bad cannot be read.
\* The search endpoint is consistent: it reports paging.total = n and the
\* page at an offset holds the handles that follow it, at most limit.
PagedListings(n, bad) ==
  [k \in 1..n |->
     [id |-> k,
      seller_custom_field |->
        IF k % 4 = 1 THEN "A" ELSE IF k % 4 = 2 THEN "B" ELSE Null,
      seller_sku |-> IF k % 4 = 3 THEN "A" ELSE Null,
      readable |-> k \notin bad]]
SearchPage(offset, limit) ==
  [j \in 1..Max(0, Min(limit, Len(mlListings) - offset)) |->
     mlListings[offset + j].id]

\* offset + itemIds.length >= total || itemIds.length < limit ends the loop.
HasMoreUntilEmpty(offset, len, total) == TRUE
HasMoreNever(offset, len, total) == FALSE
HasMore(offset, len, total) == ~(offset + len >= total \/ len < PageLimit)

\* if (!sku) itemsWithoutSKU.push(...) runs for a record that arrived; the
\* catch of a failed request only logs.
SideListWithFailed(list, item) ==
  IF ~item.readable \/ resolveSkuFromMLItem(item) = Null
  THEN Append(list, item.id) ELSE list
SideList(list, item) ==
  IF item.readable /\ resolveSkuFromMLItem(item) = Null
  THEN Append(list, item.id) ELSE list

\* One call of loadAllMercadoLibreProducts past the test of the cache:
\* requested and fetched are history, the offsets asked for and the handles
\* whose record was asked for.
NewBuild ==
  [pc |-> "auth", offset |-> 0, page |-> << >>, pos |-> 0,
   productMap |-> EmptyMap, itemsWithoutSKU |-> << >>,
   requested |-> << >>, fetched |-> << >>, result |-> NoCache]
\* The Map object a call made, named by the call.
StoredCache(b, map) == [loaded |-> TRUE, map |-> map, by |-> b]
Running(b) == b \in 1..Len(builds) /\ builds[b].pc \in {"auth", "page", "item"}
\* What a build leaves alone.
buildFrame ==
  << mlListings, managerProduct, argv, webhook, erp, sinkQty, phase, kind,
     skus, opts, results, retryAttempt, passList, passConc, idx, acc, items,
     lastPass, decision, putCount, firstPass, retryUpdated, anyDryRun,
     prevOne >>

\* loadAllMercadoLibreProducts() is called: the cached Map is returned, or
\* getAccessToken() and the user lookup are awaited.
BuildCall ==
  /\ Len(builds) < MaxBuilds
  /\ builds' = Append(builds,
                  IF HasCache(mlProductsCache)
                  THEN [NewBuild EXCEPT !.pc = "returned",
                                        !.result = mlProductsCache]
                  ELSE NewBuild)
  /\ UNCHANGED mlProductsCache
  /\ UNCHANGED buildFrame
\* mlProductsCache = productMap; return productMap.
BuildFinish(b, cur) ==
  /\ builds' = [builds EXCEPT ![b] =
                  [cur EXCEPT !.pc = "returned",
                              !.result = StoredCache(b, cur.productMap)]]
  /\ mlProductsCache' = StoredCache(b, cur.productMap)
\* The request of the page at cur.offset goes out.
BuildNextPage(b, cur) ==
  /\ builds' = [builds EXCEPT ![b] =
                  [cur EXCEPT !.pc = "page",
                              !.requested = Append(@, cur.offset)]]
  /\ UNCHANGED mlProductsCache
\* catch (error) { console.error(...); throw error }: the Map of the call is
\* dropped, mlProductsCache is as it was.
BuildThrowStoresPartial(b) ==
  /\ builds' = [builds EXCEPT ![b].pc = "failed"]
  /\ mlProductsCache' = StoredCache(b, builds[b].productMap)
BuildThrow(b) ==
  /\ builds' = [builds EXCEPT ![b].pc = "failed"]
  /\ UNCHANGED mlProductsCache
\* The token and the user id arrive, or one of the two calls fails and the
\* build throws.
BuildAuthReply(b, ok) ==
  /\ b \in 1..Len(builds)
  /\ builds[b].pc = "auth"
  /\ IF ok THEN BuildNextPage(b, builds[b]) ELSE BuildThrow(b)
  /\ UNCHANGED buildFrame
\* The page arrives: an empty page ends the loop, else the record of its
\* first handle is asked for; a failed request makes the build throw.
BuildPageReply(b, ok) ==
  /\ b \in 1..Len(builds)
  /\ builds[b].pc = "page"
  /\ LET cur == builds[b]
         itemIds == SearchPage(cur.offset, PageLimit)
     IN IF ~ok
        THEN BuildThrow(b)
        ELSE IF itemIds = << >>
             THEN BuildFinish(b, cur)
             ELSE /\ builds' = [builds EXCEPT ![b] =
                               [cur EXCEPT !.pc = "item", !.page = itemIds,
                                           !.pos = 1,
                                           !.fetched = Append(@, itemIds[1])]]
                  /\ UNCHANGED mlProductsCache
  /\ UNCHANGED buildFrame
\* The record of a handle arrives or its request fails (catch, continue):
\* the body of the for-loop, then the next handle, the next page or the end.
BuildItemReply(b) ==
  /\ b \in 1..Len(builds)
  /\ builds[b].pc = "item"
  /\ LET cur == builds[b]
         item == CHOOSE l \in Range(mlListings) : l.id = cur.page[cur.pos]
         after ==
           [cur EXCEPT !.productMap = BuildMap(<< item >>, @, sinkQty),
                       !.itemsWithoutSKU = SideList(@, item)]
     IN IF cur.pos < Len(cur.page)
        THEN /\ builds' = [builds EXCEPT ![b] =
                          [after EXCEPT !.pos = cur.pos + 1,
                                        !.fetched =
                                          Append(@, cur.page[cur.pos + 1])]]
             /\ UNCHANGED mlProductsCache
        ELSE IF HasMore(cur.offset, Len(cur.page), Len(mlListings))
             THEN BuildNextPage(b, [after EXCEPT !.offset = @ + PageLimit])
             ELSE BuildFinish(b, after)
  /\ UNCHANGED buildFrame

BuildStep ==
  \/ \E b \in 1..MaxBuilds, ok \in BOOLEAN : BuildAuthReply(b, ok)
  \/ \E b \in 1..MaxBuilds, ok \in BOOLEAN : BuildPageReply(b, ok)
  \/ \E b \in 1..MaxBuilds : BuildItemReply(b)

\* Sellers with any number of listings, one of which at most cannot be
\* read; the builds of a process follow one another.
InitSellers(sizes) ==
  /\ \E n \in sizes :
       \E bad \in {{}} \cup {{k} : k \in {1, PageLimit, PageLimit + 1} \cap (1..n)} :
         /\ mlListings = PagedListings(n, bad)
         /\ sinkQty = [k \in 1..n |-> k % (MaxQty + 1)]
  /\ managerProduct = NoProduct
  /\ argv = NoArgv
  /\ webhook = << >>
  /\ builds = << >>
  /\ erp = NoErp
  /\ mlProductsCache = NoCache
  /\ Idle
  /\ anyDryRun = FALSE
  /\ prevOne = NoResult
InitPages == InitSellers(0..MaxPageListings)
\* The sizes next to a multiple of the page length.
InitPagesFair ==
  InitSellers({n \in 0..MaxPageListings :
                 n % PageLimit \in {0, 1, PageLimit - 1}})
NextPages ==
  \/ (\A b \in 1..Len(builds) : ~Running(b)) /\ BuildCall
  \/ BuildStep

SpecPages == InitPages /\ [][NextPages]_vars

\* Two sync requests served by one process: the second calls
\* loadAllMercadoLibreProducts at any moment of the first one's build.
NextOverlap ==
  \/ BuildCall
  \/ BuildStep
SpecOverlap == InitSellers(0..MaxOverlapListings) /\ [][NextOverlap]_vars
\* Every request of a build is answered or fails in the end.
SpecPagesFair == InitPagesFair /\ [][NextPages]_vars /\ WF_vars(BuildStep)

\* ------------------------------------ processInParallel with any processor
\* The message of an exception as its words; message.includes(pattern).
Includes(msg, pat) ==
  \E i \in 0..(Len(msg) - Len(pat)) : SubSeq(msg, i + 1, i + Len(pat)) = pat
\* error.message && error.message.includes('Rate limit')
IsRateLimitSignalAlways(msg) == TRUE
IsRateLimitSignal(msg) == msg # << >> /\ Includes(msg, << "Rate", "limit" >>)
Thrown(msg) == [thrown |-> TRUE, message |-> msg]
\* What the executor leaves alone.
execFrame ==
  << mlProductsCache, sinkQty, kind, skus, opts, results, retryAttempt,
     lastPass, firstPass, retryUpdated, anyDryRun, prevOne >>

\* processInParallel(array, processor, concurrency) is called.
ExecCall(array, concurrency) ==
  /\ phase = "idle"
  /\ kind' = "exec"
  /\ phase' = "pass"
  /\ BeginPass(array, concurrency)
  /\ UNCHANGED env
  /\ UNCHANGED << mlProductsCache, sinkQty, skus, opts, results,
                  retryAttempt, lastPass, decision, firstPass, retryUpdated,
                  anyDryRun, prevOne >>
\* The promise of one element of the chunk resolves with a value.
ProcessorResolves(p, v) ==
  /\ phase = "pass"
  /\ kind = "exec"
  /\ p \in 1..Len(items)
  /\ items[p].pc = "fetch"
  /\ items' = [items EXCEPT ![p].pc = "done",
                            ![p].res = [sku |-> items[p].sku, value |-> v]]
  /\ UNCHANGED env
  /\ UNCHANGED execFrame
  /\ UNCHANGED << phase, passList, passConc, idx, acc, decision, putCount >>
\* The promise of one element rejects: Promise.all rejects at once and the
\* catch runs, the results of the chunk are not pushed.  A rate-limit
\* message starts the wait of 2 seconds, any other error is thrown again.
ProcessorRejects(p, msg) ==
  /\ phase = "pass"
  /\ kind = "exec"
  /\ p \in 1..Len(items)
  /\ items[p].pc = "fetch"
  /\ decision' = Thrown(msg)
  /\ phase' = IF IsRateLimitSignal(msg) THEN "cooldown" ELSE "failed"
  /\ UNCHANGED env
  /\ UNCHANGED execFrame
  /\ UNCHANGED << passList, passConc, idx, acc, items, putCount >>
\* The timer of the catch fires: the for-loop advances to the next chunk.
CooldownElapsed ==
  /\ phase = "cooldown"
  /\ kind = "exec"
  /\ phase' = "pass"
  /\ idx' = idx + passConc
  /\ items' = IF idx + passConc < Len(passList)
              THEN ChunkAt(passList, idx + passConc, passConc)
              ELSE << >>
  /\ UNCHANGED env
  /\ UNCHANGED execFrame
  /\ UNCHANGED << passList, passConc, acc, decision, putCount >>
\* return results.
ExecReturn ==
  /\ phase = "pass"
  /\ kind = "exec"
  /\ items = << >>
  /\ idx >= Len(passList)
  /\ phase' = "returned"
  /\ UNCHANGED env
  /\ UNCHANGED execFrame
  /\ UNCHANGED << passList, passConc, idx, acc, items, decision, putCount >>

NextExec ==
  \/ \E array \in SeqsUpTo({"A", "B"}, MaxLenExec),
        concurrency \in 1..MaxConcExec : ExecCall(array, concurrency)
  \/ \E p \in 1..MaxConcExec, v \in BOOLEAN : ProcessorResolves(p, v)
  \/ \E p \in 1..MaxConcExec,
        msg \in {<< "Rate", "limit", "exceeded" >>, << "ML", "Rate", "limit" >>,
                 << "Network", "Error" >>, << "limit", "Rate" >>, << >>} :
       ProcessorRejects(p, msg)
  \/ ChunkResolve
  \/ CooldownElapsed
  \/ ExecReturn

SpecExec == Init /\ [][NextExec]_vars

\* ------------------------------------------------- the Manager+ token cache
\* erp.token 0 is erpAuthToken = null, erp.expiry 0 is
\* erpTokenExpirationTime = null; the tokens Manager+ hands out are numbered
\* in the order of the answers and erp.issuedAt holds, as history, the
\* reading of the clock at each answer.
\* erpAuthToken && erpTokenExpirationTime && Date.now() < erpTokenExpirationTime
IsFreshIgnoringExpiry(e) == e.token # 0
IsFresh(e) == e.token # 0 /\ e.expiry # 0 /\ e.now < e.expiry
\* What the token cache leaves alone.
erpFrame ==
  << mlListings, managerProduct, argv, webhook, builds, mlProductsCache,
     sinkQty, phase, kind, skus, opts, results, retryAttempt, passList,
     passConc, idx, acc, items, lastPass, decision, putCount, firstPass,
     retryUpdated, anyDryRun, prevOne >>

\* getERPAuthToken() is called: the cached token is returned, or the POST
\* of authenticateWithERP goes out.  start and cached are history.
GetERPAuthToken ==
  /\ Len(erp.callers) < MaxErpCallers
  /\ erp' = [erp EXCEPT !.callers =
               Append(@, IF IsFresh(erp)
                         THEN [pc |-> "done", ret |-> erp.token, posts |-> 0,
                               start |-> erp.now, cached |-> erp.token]
                         ELSE [pc |-> "auth", ret |-> 0, posts |-> 1,
                               start |-> erp.now, cached |-> 0])]
  /\ UNCHANGED erpFrame
\* The POST of a caller is answered: the token and its expiry are stored
\* and the token is returned; or it fails and the caller gets the error.
AuthReply(c, ok) ==
  /\ c \in 1..Len(erp.callers)
  /\ erp.callers[c].pc = "auth"
  /\ IF ok
     THEN LET token == Len(erp.issuedAt) + 1
          IN erp' = [erp EXCEPT !.token = token,
                                !.expiry = erp.now + ERP_TOKEN_TTL,
                                !.issuedAt = Append(@, erp.now),
                                !.callers[c].pc = "done",
                                !.callers[c].ret = token]
     ELSE erp' = [erp EXCEPT !.callers[c].pc = "failed"]
  /\ UNCHANGED erpFrame
\* Time passes.
Tick ==
  /\ erp.now < MaxNow
  /\ erp' = [erp EXCEPT !.now = @ + 1]
  /\ UNCHANGED erpFrame

NextErp ==
  \/ GetERPAuthToken
  \/ \E c \in 1..MaxErpCallers, ok \in BOOLEAN : AuthReply(c, ok)
  \/ Tick

SpecErp == Init /\ [][NextErp]_vars

\* ------------------------------------------------------------- properties
ManyDone == phase = "done" /\ kind = "many"
Distinct(list) ==
  \A i, j \in 1..Len(list) : i # j => list[i] # list[j]
CountOf(list, P(_)) == Cardinality({k \in 1..Len(list) : P(list[k])})
IsUpdated(r) == r.action \in {"updated", "would_update"}
IsNoChange(r) == r.action = "no_change"
IsSkipped(r) == r.action = "skipped"
IsError(r) == r.action = "error"
\* An Error Decision whose message is not a not-found/skipped message.
RetryableError(r) ==
  /\ r.action = "error"
  /\ r.error \notin {MsgNotInManager, MsgNotInML, MsgRawNoEncontrado}
IsRateLimitError(r) == r.action = "error" /\ r.error = MsgRateLimit
\* Every result object the call in progress holds.
SettledResults ==
  {items[p].res : p \in {q \in 1..Len(items) : items[q].pc = "done"}}
    \cup Range(acc) \cup Range(results.details)
    \cup (IF decision = NoResult THEN {} ELSE {decision})

\* C1: when syncMany returns, perItem is as long as the identifier array and
\* perItem[i] carries identifiers[i], whatever the order in which the items
\* of a chunk settled and after the retry passes.
C1_OrderPreserved ==
  ManyDone =>
    /\ Len(results.details) = Len(skus)
    /\ \A i \in 1..Len(skus) : results.details[i].sku = skus[i]
C1_Witness ==
  /\ ManyDone
  /\ Len(skus) = 2
  /\ skus[1] # skus[2]
  /\ opts.concurrency = 2
  /\ retryAttempt = 1
  /\ results.details[1].action = "updated"

\* C2: when syncMany returns, updated + noChange + skipped + errors is the
\* number of identifiers of the call.
C2_CountersSum ==
  ManyDone =>
    /\ results.total = Len(skus)
    /\ results.updated + results.noChange + results.skipped + results.errors
         = results.total
C2_Witness ==
  /\ ManyDone
  /\ retryAttempt = 1
  /\ results.updated = 1
  /\ results.errors = 1

\* C3: in the returned RunResult each counter is the number of perItem
\* Decisions of its kind: updated counts Updated/WouldUpdate, noChange counts
\* NoChange, skipped counts Skipped and errors counts Error.
C3_CountersMatchDecisions ==
  ManyDone =>
    /\ results.updated = CountOf(results.details, IsUpdated)
    /\ results.noChange = CountOf(results.details, IsNoChange)
    /\ results.skipped = CountOf(results.details, IsSkipped)
    /\ results.errors = CountOf(results.details, IsError)

\* C4: after completed non-dry-run calls of one process, a Decision Updated
\* or NoChange for an identifier means that the sink holds the source
\* quantity read in that Decision.
SinkHolds(r) ==
  r.action \in {"updated", "no_change"} =>
    sinkQty[mlProductsCache.map[r.sku].itemId] = r.managerStock
C4_SinkMatchesSource ==
  (phase = "done" /\ ~anyDryRun) =>
    /\ kind = "one" => SinkHolds(decision)
    /\ kind = "many" =>
         \A i \in 1..Len(results.details) :
           (\A j \in 1..Len(skus) : skus[j] = skus[i] => j = i)
             => SinkHolds(results.details[i])

\* C5: a non-dry-run syncOne of an identifier found in both systems with
\* differing quantities returns Updated, and the same call made again with
\* the source unchanged returns NoChange.
C5_SecondCallNoChange ==
  ( /\ phase = "done"
    /\ kind = "one"
    /\ ~opts.dryRun
    /\ ~opts.forceUpdate
    /\ prevOne.action = "updated"
    /\ prevOne.sku = decision.sku
    /\ prevOne.managerStock # prevOne.mlStock
    /\ decision.success
    /\ decision.managerStock = prevOne.managerStock )
  => decision.action = "no_change"

\* C6: in a dry run no update call is issued during the whole call (no
\* update in flight, none counted, no retry pass), and an identifier found
\* in both systems with differing quantities yields WouldUpdate.
C6_DryRunNeverWrites ==
  opts.dryRun =>
    /\ retryAttempt = 0
    /\ \A k \in 1..Len(putCount) : putCount[k] = 0
    /\ \A p \in 1..Len(items) : items[p].pc # "put"
    /\ \A r \in SettledResults :
         (r.success /\ r.managerStock # r.mlStock) => r.action = "would_update"
C6_Witness ==
  /\ ManyDone
  /\ opts.dryRun
  /\ opts.forceUpdate
  /\ opts.maxRetries >= 1
  /\ \E i, j \in 1..Len(results.details) :
       /\ results.details[i].action = "would_update"
       /\ results.details[i].managerStock # results.details[i].mlStock
       /\ RetryableError(results.details[j])

\* C7: with forceUpdate = false an identifier found in both systems with
\* equal quantities yields NoChange, and no update call is issued for it.
C7_EqualMeansNoChange ==
  ~opts.forceUpdate =>
    /\ \A p \in 1..Len(items) :
         /\ items[p].pc = "put" => items[p].managerStock # items[p].mlStock
         /\ (items[p].pc = "done" /\ items[p].res.action = "no_change")
              => putCount[idx + p] = 0
    /\ \A k \in 1..Len(acc) :
         (phase = "pass" /\ acc[k].action = "no_change") => putCount[k] = 0
    /\ \A r \in SettledResults :
         (r.success /\ r.managerStock = r.mlStock) => r.action = "no_change"
C7_Witness ==
  /\ ManyDone
  /\ ~opts.forceUpdate
  /\ ~opts.dryRun
  /\ Len(skus) = 2
  /\ results.details[1].action = "no_change"
  /\ results.details[2].action = "updated"

\* C8 as stated: within one executor pass the update call is issued at most
\* once per identifier, and only when dryRun is false and the source
\* quantity differs from the sink quantity.
PutsFor(sku) == {k \in 1..Len(putCount) : passList[k] = sku /\ putCount[k] > 0}
C8_Original ==
  /\ \A k \in 1..Len(putCount) : putCount[k] <= 1
  /\ \A sku \in Skus : Cardinality(PutsFor(sku)) <= 1
  /\ \A p \in 1..Len(items) :
       items[p].pc = "put" =>
         ~opts.dryRun /\ items[p].managerStock # items[p].mlStock

\* C8 amended: within one executor pass the update call is issued at most
\* once per position of the identifier array of the pass (so at most once per
\* identifier when the array holds no identifier twice), and only when
\* dryRun is false and the source quantity differs from the indexed sink
\* quantity or forceUpdate is true.
C8_Amended ==
  /\ \A k \in 1..Len(putCount) : putCount[k] <= 1
  /\ Distinct(passList) => \A sku \in Skus : Cardinality(PutsFor(sku)) <= 1
  /\ \A p \in 1..Len(items) :
       items[p].pc = "put" =>
         /\ ~opts.dryRun
         /\ items[p].managerStock # items[p].mlStock \/ opts.forceUpdate
         /\ putCount[idx + p] = 1
C8_Witness ==
  /\ kind = "many"
  /\ Len(items) = 2
  /\ items[1].sku = items[2].sku
  /\ items[1].pc = "put"
  /\ items[2].pc = "put"
  /\ opts.forceUpdate
  /\ items[1].managerStock = items[1].mlStock

\* C9: a non-dry-run syncMany over distinct identifiers with maxRetries >= 1
\* in which every item is Updated in the first pass, or fails the first pass
\* with a rate-limit error and is Updated in a retry, returns errors = 0,
\* updated = the number of identifiers and every item Updated in perItem.
C9_Hypothesis ==
  /\ ManyDone
  /\ ~opts.dryRun
  /\ opts.maxRetries >= 1
  /\ Distinct(skus)
  /\ Len(firstPass) = Len(skus)
  /\ \A i \in 1..Len(skus) :
       \/ firstPass[i].action = "updated"
       \/ IsRateLimitError(firstPass[i]) /\ skus[i] \in retryUpdated
C9_RetriedItemsCount ==
  C9_Hypothesis =>
    /\ results.errors = 0
    /\ results.updated = Len(skus)
    /\ \A i \in 1..Len(skus) : results.details[i].action = "updated"
C9_Witness ==
  /\ C9_Hypothesis
  /\ Len(skus) = 2
  /\ firstPass[1].action = "updated"
  /\ IsRateLimitError(firstPass[2])

\* C10: the identifiers of a retry pass are those to which the preceding
\* pass gave an Error whose message is not a not-found/skipped message, and
\* no other: an item that came out NoChange, Updated, WouldUpdate, Skipped
\* or with a terminal message is not processed again in the call.
C10_OnlyRetryableRetried ==
  (phase = "pass" /\ kind = "many" /\ retryAttempt >= 1) =>
    /\ passList = SkusOf(SelectSeq(lastPass, RetryableError))
    /\ \A p \in 1..Len(items) : items[p].sku = passList[idx + p]
    /\ Distinct(skus) =>
         \A k \in 1..Len(passList) :
           RetryableError(results.details[FindIndex(results.details, passList[k])])
C10_Witness ==
  /\ phase = "pass"
  /\ kind = "many"
  /\ retryAttempt = 1
  /\ Len(lastPass) = 2
  /\ Len(passList) = 1
  /\ \E i \in 1..2 : lastPass[i].error = MsgRawNoEncontrado

\* C11: syncMany begins at most maxRetries retry passes after the initial
\* pass, 3 when options.maxRetries was not passed and none when it is 0, and
\* it begins a retry pass only when the preceding pass left a retryable
\* failure.
C11_RetryPassesBounded ==
  kind = "many" =>
    /\ retryAttempt <= (IF opts.optMaxRetries = Undefined
                        THEN DefaultMaxRetries ELSE opts.optMaxRetries)
    /\ (phase = "pass" /\ retryAttempt >= 1) =>
         SelectSeq(lastPass, RetryableError) # << >>
    /\ (ManyDone /\ SelectSeq(lastPass, RetryableError) # << >> /\ ~opts.dryRun)
         => retryAttempt = (IF opts.optMaxRetries = Undefined
                            THEN DefaultMaxRetries ELSE opts.optMaxRetries)
C11_Witness ==
  /\ ManyDone
  /\ opts.optMaxRetries = Undefined
  /\ retryAttempt = DefaultMaxRetries
  /\ SelectSeq(lastPass, RetryableError) # << >>

\* C12: in every pass of processInParallel the items in flight are those of
\* one chunk, at most as many as the concurrency handed to that pass, and a
\* chunk is started only when the result of every item before it has been
\* collected.
InFlight == {p \in 1..Len(items) : items[p].pc # "done"}
C12_ChunkBarrier ==
  (phase = "pass" /\ kind = "many") =>
    /\ Len(items) <= passConc
    /\ Cardinality(InFlight) <= passConc
    /\ items # << >> =>
         /\ Len(acc) = idx
         /\ idx + Len(items) <= Len(passList)
         /\ \A k \in 1..Len(acc) : acc[k].action # "none"
C12_Witness ==
  /\ phase = "pass"
  /\ kind = "many"
  /\ passConc = 1
  /\ Len(passList) = 2
  /\ idx = 1
  /\ acc[1].action = "updated"
  /\ InFlight = {1}
  /\ items[1].pc = "put"

\* C13: a requested concurrency above 50 is replaced by 50 and one above 20
\* and at most 50 is used as it is; in both cases the call goes on, and the
\* run never has more than 50 items in flight.
C13_ConcurrencyClamped ==
  kind = "many" =>
    /\ opts.optConcurrency > ABSOLUTE_MAX_CONCURRENCY
         => opts.concurrency = ABSOLUTE_MAX_CONCURRENCY
    /\ ( /\ opts.optConcurrency > MAX_RECOMMENDED_CONCURRENCY
         /\ opts.optConcurrency <= ABSOLUTE_MAX_CONCURRENCY )
         => opts.concurrency = opts.optConcurrency
    /\ (phase = "pass" /\ retryAttempt = 0) => passConc = opts.concurrency
    /\ Cardinality(InFlight) <= ABSOLUTE_MAX_CONCURRENCY
C13_Witness ==
  /\ phase = "pass"
  /\ opts.optConcurrency = 200
  /\ Len(passList) = ABSOLUTE_MAX_CONCURRENCY + 1
  /\ Cardinality(InFlight) = ABSOLUTE_MAX_CONCURRENCY

\* C14: in syncMany a reply to one item, a failure included, settles that
\* item alone, with a result carrying its own identifier, and leaves the
\* other items, the results collected so far and the run itself as they
\* were; the call fails only before the first item is started, and when it
\* returns every identifier has a Decision of its own.
C14_Step ==
  kind = "many" =>
    /\ phase = "pass" => phase' \in {"pass", "done"}
    /\ \A p \in 1..Len(items) :
         (items[p].pc # "done" /\ items'[p] # items[p]) =>
           /\ Len(items') = Len(items)
           /\ \A j \in 1..Len(items) : j # p => items'[j] = items[j]
           /\ items'[p].sku = items[p].sku
           /\ items'[p].pc = "done" => items'[p].res.sku = items[p].sku
           /\ acc' = acc
           /\ results' = results
C14_State ==
  /\ (kind = "many" /\ phase = "failed") =>
       items = << >> /\ acc = << >> /\ results.details = << >>
  /\ ManyDone =>
       /\ Len(results.details) = Len(skus)
       /\ \A i \in 1..Len(skus) :
            /\ results.details[i].sku = skus[i]
            /\ results.details[i].action
                 \in {"updated", "would_update", "no_change", "skipped", "error"}
C14_FailureIsolated == [][C14_Step]_vars /\ []C14_State
C14_Witness ==
  /\ ManyDone
  /\ opts.maxRetries = 0
  /\ skus = << "A", "B" >>
  /\ opts.concurrency = DefaultConcurrency
  /\ IsRateLimitError(results.details[1])
  /\ putCount[1] = 1
  /\ results.details[2].action = "updated"

\* C15: once the listing index is there and the first pass has begun, every
\* syncMany call reaches its return with the results object, whatever the
\* replies of the two services are; it never ends in the failed state.
C15_Terminates == (kind = "many" /\ phase = "pass") ~> ManyDone
C15_Witness ==
  /\ ManyDone
  /\ skus # << >>
  /\ retryAttempt = DefaultMaxRetries
  /\ results.errors = Len(skus)
  /\ \A i \in 1..Len(skus) : RetryableError(results.details[i])

\* C16: the result of syncProductStock follows the first rule that applies:
\* Manager+ answered 404 -> Skipped; Manager+ failed otherwise -> Error with
\* the message of the failure; no listing in the index -> Skipped; equal
\* quantities without forceUpdate -> NoChange; dryRun -> WouldUpdate; else
\* the update call is issued, and the result is Updated when it succeeds and
\* Error with the message of the failure when it fails.
C16_RuleFor(it) ==
  IF it.src = "404"
  THEN it.pc = "done" /\ it.res = SkippedResult(it.sku, MsgNotInManager)
  ELSE IF it.src # "200"
  THEN it.pc = "done" /\ it.res = ErrorResult(it.sku, ErrorMessage(it.src))
  ELSE IF ~mlProductsCache.loaded
  THEN it.pc = "load" \/ (it.pc = "done" /\ it.res.action = "error")
  ELSE IF it.sku \notin DOMAIN mlProductsCache.map
  THEN it.pc = "done" /\ it.res = SkippedResult(it.sku, MsgNotInML)
  ELSE LET indexed == mlProductsCache.map[it.sku].currentStock
           source == IF it.pc = "put" THEN it.managerStock
                     ELSE it.res.managerStock
       IN IF it.pc = "done" /\ it.snk \notin {"none", "200"}
          THEN /\ it.res = ErrorResult(it.sku, ErrorMessage(it.snk))
               /\ ~opts.dryRun
          ELSE IF source = indexed /\ ~opts.forceUpdate
          THEN /\ it.pc = "done"
               /\ it.snk = "none"
               /\ it.res = OkResult(it.sku, "no_change", source, indexed)
          ELSE IF opts.dryRun
          THEN /\ it.pc = "done"
               /\ it.snk = "none"
               /\ it.res = OkResult(it.sku, "would_update", source, indexed)
          ELSE \/ it.pc = "put" /\ it.snk = "none" /\ it.mlStock = indexed
               \/ /\ it.pc = "done"
                  /\ it.snk = "200"
                  /\ it.res = OkResult(it.sku, "updated", source, indexed)
C16_DecideRuleOrder ==
  /\ \A p \in 1..Len(items) :
       /\ items[p].src = "none" <=> items[p].pc = "fetch"
       /\ items[p].src # "none" => C16_RuleFor(items[p])
  /\ (kind = "one" /\ phase = "done") => decision = items[1].res
C16_Witness ==
  /\ kind = "one"
  /\ phase = "done"
  /\ opts.dryRun
  /\ opts.forceUpdate
  /\ decision.action = "would_update"
  /\ decision.managerStock = decision.mlStock

\* C17: Manager+ answering 404 gives no product and syncOne returns Skipped;
\* 429 gives the rate-limit error, a status of 500 or more the server error
\* and any other failure its own error, and syncOne returns Error with the
\* message of that error.
C17_SourceFetchMapping ==
  (kind = "one" /\ items # << >> /\ items[1].src \notin {"none", "200"}) =>
    LET it == items[1]
    IN /\ it.pc = "done"
       /\ it.snk = "none"
       /\ it.src = "404" =>
            it.res.action = "skipped" /\ it.res.error = MsgNotInManager
       /\ it.src # "404" => it.res.action = "error" /\ ~it.res.success
       /\ it.src = "429" => it.res.error = MsgRateLimit
       /\ it.src \in ServerErrors => it.res.error = MsgServer
       /\ it.src = "other" => it.res.error = MsgRaw
       /\ it.src = "other_ne" => it.res.error = MsgRawNoEncontrado
       /\ phase = "done" => decision = it.res
C17_Witness ==
  /\ kind = "one"
  /\ phase = "done"
  /\ items[1].src = "503"
  /\ decision.action = "error"
  /\ decision.error = MsgServer

\* C18: after a build the index holds, for each SKU, one summary, and it is
\* the summary of the first listing in pagination order whose record was
\* read and resolves to that SKU; a SKU no such listing resolves to has no
\* summary.
ListingsOf(sku) ==
  {n \in 1..Len(mlListings) :
     mlListings[n].readable /\ resolveSkuFromMLItem(mlListings[n]) = sku}
FirstOf(S) == CHOOSE n \in S : \A k \in S : n <= k
C18_IndexKeepsFirst ==
  mlProductsCache.loaded =>
    \A sku \in Skus :
      IF ListingsOf(sku) = {}
      THEN sku \notin DOMAIN mlProductsCache.map
      ELSE /\ sku \in DOMAIN mlProductsCache.map
           /\ mlProductsCache.map[sku] =
                [itemId |-> mlListings[FirstOf(ListingsOf(sku))].id,
                 currentStock |->
                   sinkQty[mlListings[FirstOf(ListingsOf(sku))].id]]
C18_Witness ==
  /\ mlProductsCache.loaded
  /\ Cardinality(ListingsOf("A")) >= 2
  /\ 1 \notin ListingsOf("A")
  /\ mlProductsCache.map["A"].itemId = ListingIds[2]

\* C19: once the process holds a map, empty or not, no step replaces or
\* changes it, and a later call of loadAllMercadoLibreProducts goes on with
\* it at once: it sends no listing request, so it cannot fail.
C19_Step ==
  mlProductsCache.loaded =>
    /\ mlProductsCache' = mlProductsCache
    /\ phase = "load" => phase' = "pass"
C19_BuildMemoized == [][C19_Step]_vars
C19_Witness ==
  /\ phase = "load"
  /\ mlProductsCache.loaded
  /\ DOMAIN mlProductsCache.map = {}
  /\ Len(mlListings) >= 2

\* C20: in syncMany no request to Manager+ and no update call is under way
\* before loadAllMercadoLibreProducts has returned, and from the first pass
\* to the return no step changes the Map, a successful update included.
C20_State ==
  kind = "many" =>
    /\ phase \in {"auth", "load", "failed"} =>
         /\ items = << >>
         /\ acc = << >>
         /\ \A k \in 1..Len(putCount) : putCount[k] = 0
    /\ phase \in {"pass", "done"} => mlProductsCache.loaded
C20_Step ==
  (kind = "many" /\ phase = "pass") => mlProductsCache' = mlProductsCache
C20_IndexReadOnly == []C20_State /\ [][C20_Step]_vars
C20_Witness ==
  /\ kind = "many"
  /\ phase = "pass"
  /\ Len(items) = 2
  /\ items[1].res.action = "updated"
  /\ items[2].pc = "fetch"
  /\ mlProductsCache.map[items[1].sku].currentStock
       # sinkQty[mlProductsCache.map[items[1].sku].itemId]

\* C21: in a built index a listing whose record was read is found under its
\* seller custom field when it has one, otherwise under the value of its
\* seller-SKU attribute when it has one, and otherwise not at all: no key of
\* the index is an item id and no summary is that of a listing without SKU.
C21_Resolved(item) ==
  IF item.seller_custom_field # Null THEN item.seller_custom_field
  ELSE IF item.seller_sku # Null THEN item.seller_sku
  ELSE Null
C22_Balance(item) ==
  IF ~item.obj THEN 0
  ELSE IF item.saldo.t = "number" THEN item.saldo.v
  ELSE IF item.saldo.t = "string" /\ item.saldo.v # << >>
            /\ \A k \in 1..Len(item.saldo.v) : IsDigit(item.saldo.v[k])
       THEN DecimalValue(item.saldo.v)
       ELSE 0
C22_RowSum(row) ==
  IF row.arr
  THEN SumSeq([k \in 1..Len(row.els) |-> C22_Balance(row.els[k])])
  ELSE 0
C22_Sum(product) ==
  IF product.stock.arr
  THEN SumSeq([k \in 1..Len(product.stock.els) |->
                 C22_RowSum(product.stock.els[k])])
  ELSE 0
C22_StockIsSumOfBalances ==
  (kind = "one" /\ phase = "done" /\ decision.success) =>
    decision.managerStock = C22_Sum(managerProduct)

\* C23: a call of syncMany with an empty identifier array is rejected before
\* any remote call: it never waits for the credential check or for the
\* listings, runs no pass and returns no result.
C23_EmptyRejected ==
  (kind = "many" /\ skus = << >>) =>
    phase \notin {"auth", "load", "pass", "done"}

\* C24: a run of the command-line tool with --force reports no identifier
\* as NoChange: one whose source and sink quantities are equal is written
\* (Updated), or reported as WouldUpdate under --dry-run.
C24_ForceNeverNoChange ==
  (argv.set /\ argv.force /\ phase = "done") =>
    \A i \in 1..Len(results.details) :
      results.details[i].action # "no_change"

C26_State ==
  \A n \in 1..Len(webhook) :
    webhook[n].pc # "scheduled" =>
      /\ Len(webhook[n].responses) = 1
      /\ webhook[n].responses[1].status = 200
C26_Step ==
  \A n \in 1..Len(webhook) :
    /\ n \in 1..Len(webhook')
    /\ webhook'[n].responses = webhook[n].responses
    /\ webhook[n].responses # << >>
C26_AnswerBeforeProcessing == []C26_State /\ [][C26_Step]_vars
C26_Witness ==
  /\ Len(webhook) = 2
  /\ webhook[1].pc = "failed"
  /\ webhook[1].responses = << HookAnswer >>
  /\ webhook[2].pc = "processing"

\* C27: every retry pass of a run is handed max(2, floor(c / 2)), c being
\* the concurrency of the initial pass after the default and the ceiling:
\* the same value in the first retry pass and in every later one.
C27_Clamped ==
  LET c == IF opts.optConcurrency \in {Undefined, 0}
           THEN DefaultConcurrency ELSE opts.optConcurrency
  IN IF c > ABSOLUTE_MAX_CONCURRENCY THEN ABSOLUTE_MAX_CONCURRENCY ELSE c
C27_RetryConcurrencyFixed ==
  (kind = "many" /\ phase \in {"pass", "done"} /\ retryAttempt >= 1) =>
    passConc = IF C27_Clamped \div 2 > MinRetryConcurrency
               THEN C27_Clamped \div 2 ELSE MinRetryConcurrency
C27_Witness ==
  /\ kind = "many"
  /\ phase = "pass"
  /\ retryAttempt = 2
  /\ opts.optConcurrency = MaxConcRetry
  /\ passConc = MaxConcRetry \div 2
  /\ passConc > MinRetryConcurrency

\* C28: a retry pass never has more items in flight than the concurrency of
\* the initial pass, whatever that concurrency is.
C28_RetryWithinInitialCeiling ==
  (kind = "many" /\ phase = "pass" /\ retryAttempt >= 1) =>
    Cardinality(InFlight) <= opts.concurrency

\* C29: when a retry pass is spliced into the results, each retry result
\* that replaces a previous Error by Updated, NoChange or Skipped takes one
\* from errors and adds one to the counter of its kind; a replacement of any
\* other kind leaves the four counters as they were.
C29_One(r, x) ==
  LET k == FindIndex(r.details, x.sku)
  IN IF k = 0 THEN r
     ELSE LET r1 == [r EXCEPT !.details[k] = x]
          IN IF IsError(r.details[k]) /\ ~IsError(x)
             THEN IF IsUpdated(x)
                  THEN [r1 EXCEPT !.errors = @ - 1, !.updated = @ + 1]
                  ELSE IF IsNoChange(x)
                       THEN [r1 EXCEPT !.errors = @ - 1, !.noChange = @ + 1]
                       ELSE [r1 EXCEPT !.errors = @ - 1, !.skipped = @ + 1]
             ELSE r1
RECURSIVE C29_All(_, _)
C29_All(r, list) ==
  IF list = << >> THEN r ELSE C29_All(C29_One(r, Head(list)), Tail(list))
C29_Step ==
  (kind = "many" /\ phase = "pass" /\ retryAttempt >= 1 /\ items = << >>
     /\ idx >= Len(passList)) =>
    LET expected == C29_All(results, acc)
    IN /\ results'.errors = expected.errors
       /\ results'.updated = expected.updated
       /\ results'.noChange = expected.noChange
       /\ results'.skipped = expected.skipped
C29_CountersFollowFlips == [][C29_Step]_vars

\* C30: a dry run of syncMany runs the initial pass and no other: whatever
\* failures that pass returned and whatever maxRetries is, no retry pass is
\* begun and the call returns what the initial pass gave.
C30_DryRunSinglePass ==
  (kind = "many" /\ opts.dryRun) =>
    /\ retryAttempt = 0
    /\ phase = "pass" => passList = skus
    /\ phase = "done" => (results.details = firstPass /\ lastPass = firstPass)
C30_Witness ==
  /\ ManyDone
  /\ opts.dryRun
  /\ opts.optMaxRetries = Undefined
  /\ opts.maxRetries = DefaultMaxRetries
  /\ Len(results.details) = 2
  /\ \A i \in 1..2 : IsRetryable(results.details[i])

\* C31: a build asks for no page after a page that is empty, holds fewer
\* than 50 handles or reaches the reported total, and every build that was
\* begun returns or throws.
C31_PageLen(offset) ==
  IF Len(mlListings) - offset <= 0 THEN 0
  ELSE IF Len(mlListings) - offset < PageLimit THEN Len(mlListings) - offset
  ELSE PageLimit
C31_LastPage(offset) ==
  \/ C31_PageLen(offset) = 0
  \/ C31_PageLen(offset) < PageLimit
  \/ offset + C31_PageLen(offset) >= Len(mlListings)
C31_State ==
  \A b \in 1..Len(builds) :
    \A j \in 1..(Len(builds[b].requested) - 1) :
      ~C31_LastPage(builds[b].requested[j])
C31_BuildTerminates ==
  /\ []C31_State
  /\ \A b \in 1..MaxBuilds : Running(b) ~> ~Running(b)
C31_Witness ==
  /\ Len(mlListings) = 2 * PageLimit
  /\ Len(builds) = 1
  /\ builds[1].pc = "returned"
  /\ builds[1].requested = << 0, PageLimit >>

\* C32: when a build that paged through the listings returns, the record of
\* every active listing was asked for exactly once, and the SKU of every
\* listing that could be read and resolves to a SKU is a key of its map.
C32_Paged(b) ==
  /\ builds[b].pc = "returned"
  /\ builds[b].requested # << >>
C32_FetchedOnce(b) ==
  \A k \in 1..Len(mlListings) :
    Cardinality({j \in 1..Len(builds[b].fetched) :
                   builds[b].fetched[j] = mlListings[k].id}) = 1
C32_Indexed(b) ==
  \A k \in 1..Len(mlListings) :
    LET l == mlListings[k]
        sku == IF l.seller_custom_field # Null THEN l.seller_custom_field
               ELSE l.seller_sku
    IN (l.readable /\ sku # Null) => sku \in DOMAIN builds[b].result.map
C32_EveryListingFetchedOnce ==
  \A b \in 1..Len(builds) :
    C32_Paged(b) => C32_FetchedOnce(b) /\ C32_Indexed(b)
C32_Witness ==
  /\ Len(mlListings) = PageLimit + 1
  /\ ~mlListings[PageLimit].readable
  /\ Len(builds) = 1
  /\ C32_Paged(1)
  /\ DOMAIN builds[1].result.map = {"A", "B"}

\* C33: a listing whose record cannot be fetched does not abort the build:
\* the build returns with every handle asked for. The claim has the failed
\* listing recorded in the side list; the code records there the listings
\* that were read and have no SKU, and only those.
C33_AllProcessed(b) ==
  \A k \in 1..Len(mlListings) :
    \E j \in 1..Len(builds[b].fetched) :
      builds[b].fetched[j] = mlListings[k].id
C33_Unreadable == {k \in 1..Len(mlListings) : ~mlListings[k].readable}
C33_InSideList(b, k) ==
  \E j \in 1..Len(builds[b].itemsWithoutSKU) :
    builds[b].itemsWithoutSKU[j] = mlListings[k].id
C33_Original ==
  \A b \in 1..Len(builds) :
    C32_Paged(b) =>
      /\ C33_AllProcessed(b)
      /\ \A k \in C33_Unreadable : C33_InSideList(b, k)
C33_FailedFetchOnlySkipped ==
  /\ \A b \in 1..Len(builds) :
       \* a build throws before a page only, never within one
       (builds[b].pc = "failed") => Len(builds[b].fetched) = builds[b].offset
  /\ \A b \in 1..Len(builds) :
       C32_Paged(b) =>
         /\ C33_AllProcessed(b)
         /\ \A k \in 1..Len(mlListings) :
              C33_InSideList(b, k) <=>
                /\ mlListings[k].readable
                /\ mlListings[k].seller_custom_field = Null
                /\ mlListings[k].seller_sku = Null
C33_Witness ==
  /\ Len(mlListings) = PageLimit + 1
  /\ C33_Unreadable = {1}
  /\ Len(builds) = 1
  /\ C32_Paged(1)
  /\ Len(builds[1].requested) = 2

\* C34: in the executor a chunk that raises an exception whose message
\* holds "Rate limit" is followed, after the wait, by the next chunk; a chunk
\* that raises any other exception is the last one and the call throws.
C34_IsRateLimit(msg) ==
  \E i \in 1..(Len(msg) - 1) : msg[i] = "Rate" /\ msg[i + 1] = "limit"
C34_State ==
  kind = "exec" =>
    /\ phase = "cooldown" => C34_IsRateLimit(decision.message)
    /\ phase = "failed" => ~C34_IsRateLimit(decision.message)
C34_Step ==
  kind = "exec" =>
    /\ (phase = "pass" /\ decision' # decision) =>
         /\ phase' = IF C34_IsRateLimit(decision'.message)
                     THEN "cooldown" ELSE "failed"
         /\ UNCHANGED << idx, items, acc >>
    /\ phase = "cooldown" =>
         /\ phase' = "pass"
         /\ idx' = idx + passConc
         /\ items' = [p \in 1..(Min(idx' + passConc, Len(passList)) - idx') |->
                        NewItem(passList[idx' + p])]
    /\ phase = "failed" => UNCHANGED << phase, idx, items, acc >>
C34_RateLimitContinuesOtherThrows == []C34_State /\ [][C34_Step]_vars
C34_Witness ==
  /\ kind = "exec"
  /\ phase = "pass"
  /\ decision = Thrown(<< "ML", "Rate", "limit" >>)
  /\ idx = passConc
  /\ items # << >>
  /\ items[1].pc = "fetch"

\* C35: when the executor returns, its output holds one result per input
\* element at the position of the element.
C35_OneResultPerInput ==
  (kind = "exec" /\ phase = "returned") =>
    /\ Len(acc) = Len(passList)
    /\ \A k \in 1..Len(acc) : acc[k].sku = passList[k]

\* C36: whatever stock payload Manager+ sends, the quantity a call resolves
\* for the source is a non-negative integer, and so is every quantity a
\* listing holds after the call wrote it.
C36_QuantitiesNonNegative ==
  /\ \A p \in 1..Len(items) :
       items[p].pc = "put" => items[p].managerStock \in Nat
  /\ \A i \in DOMAIN sinkQty : sinkQty[i] \in Nat

\* C37: a caller of getERPAuthToken that found the cache empty or expired
\* gets a token that an authentication call answered after its request; a
\* caller that found an unexpired token gets that token without a POST;
\* the cache holds a token with the expiry of the call that produced it,
\* and holds one once every caller has finished and some call was answered.
C37_Expired(c) ==
  \/ c.cached = 0
  \/ erp.issuedAt[c.cached] + ERP_TOKEN_TTL <= c.start
C37_State ==
  /\ \A k \in 1..Len(erp.callers) :
       LET c == erp.callers[k]
       IN c.pc = "done" =>
            /\ c.ret \in 1..Len(erp.issuedAt)
            /\ IF c.posts = 0
               THEN c.ret = c.cached /\ ~C37_Expired(c)
               ELSE erp.issuedAt[c.ret] >= c.start
  /\ erp.token # 0 =>
       /\ erp.token \in 1..Len(erp.issuedAt)
       /\ erp.expiry = erp.issuedAt[erp.token] + ERP_TOKEN_TTL
  /\ ((\A k \in 1..Len(erp.callers) : erp.callers[k].pc # "auth")
        /\ erp.issuedAt # << >>) =>
       erp.token = Len(erp.issuedAt)
C37_Step ==
  \* a caller that finds an unexpired token gets it at once
  (Len(erp.callers') > Len(erp.callers) /\ erp.token # 0
     /\ erp.now < erp.issuedAt[erp.token] + ERP_TOKEN_TTL) =>
    /\ erp.callers'[Len(erp.callers')].pc = "done"
    /\ erp.callers'[Len(erp.callers')].ret = erp.token
    /\ erp.issuedAt' = erp.issuedAt
C37_TokenFromCompletedCall == []C37_State /\ [][C37_Step]_vars
C37_Witness ==
  /\ Len(erp.callers) = 3
  /\ \A k \in 1..3 : erp.callers[k].pc = "done"
  /\ erp.callers[1].posts = 1 /\ erp.callers[2].posts = 1
  /\ erp.callers[1].ret = 2 /\ erp.callers[2].ret = 1
  /\ erp.callers[3].posts = 0 /\ erp.callers[3].ret = 2
  /\ erp.token = 2

\* C38: when the builds of one process overlap, the listings are paged
\* through once and every caller gets the same Map object.
C38_PaginatedOnce ==
  /\ Cardinality({b \in 1..Len(builds) : builds[b].requested # << >>}) <= 1
  /\ \A b, c \in 1..Len(builds) :
       (builds[b].pc = "returned" /\ builds[c].pc = "returned") =>
         builds[b].result = builds[c].result

\* C39: when syncMultipleProducts returns, errors is the number of entries
\* of results.details with success false, and updated + noChange + skipped
\* the number of entries with success true, also when an identifier is given
\* more than once.
C39_Successful == {k \in 1..Len(results.details) : results.details[k].success}
C39_CountersMatchEntries ==
  ManyDone =>
    /\ results.errors = Len(results.details) - Cardinality(C39_Successful)
    /\ results.updated + results.noChange + results.skipped
         = Cardinality(C39_Successful)

\* C40: a build that fails on its credential, user or page request stores
\* no Map and hands the error to its caller, and the call that follows
\* pages through the listings again from offset 0.
C40_FailedBefore(c) == \A b \in 1..(c - 1) : builds[b].pc = "failed"
C40_State ==
  /\ (\A b \in 1..Len(builds) : builds[b].pc # "returned") =>
       mlProductsCache = NoCache
  /\ \A c \in 1..Len(builds) :
       /\ builds[c].pc = "failed" => builds[c].result = NoCache
       /\ C40_FailedBefore(c) =>
            /\ builds[c].requested # << >> => builds[c].requested[1] = 0
            /\ builds[c].pc = "returned" =>
                 /\ builds[c].requested # << >>
                 /\ DOMAIN builds[c].result.map =
                      {s \in {"A", "B"} :
                         \E k \in 1..Len(mlListings) :
                           /\ mlListings[k].readable
                           /\ resolveSkuFromMLItem(mlListings[k]) = s}
C40_Step ==
  \A b \in 1..Len(builds) :
    (builds[b].pc # "failed" /\ builds'[b].pc = "failed") =>
      mlProductsCache' = mlProductsCache
C40_FailedBuildStoresNothing == []C40_State /\ [][C40_Step]_vars
C40_Witness ==
  /\ Len(mlListings) = PageLimit + 1
  /\ Len(builds) = 2
  /\ builds[1].pc = "failed"
  /\ builds[1].requested = << 0, PageLimit >>
  /\ builds[2].pc = "returned"
  /\ builds[2].requested = << 0, PageLimit >>
  /\ mlProductsCache = builds[2].result

====
